---- MODULE Spec2Model ----
(***************************************************************************)
(* Bridge lane lifecycle of the xcm-bridge-hub pallet                      *)
(* (bridges/modules/xcm-bridge-hub/src/lib.rs): the Bridges and          *)
(* LaneToBridge storage maps, the open_bridge and close_bridge       *)
(* dispatchables, the genesis build and the do_try_state audit, together *)
(* with the collaborators they call: the lanes manager of the messages     *)
(* pallet, the currency holds and the bridge location resolver.            *)
(***************************************************************************)
EXTENDS Integers, Sequences, FiniteSets, TLC

\* ------------------------------------------------------------------ bounds
\* Largest nonce an outbound lane ever generates, largest pruning budget a
\* caller presents.
MaxNonce == 2
MaxBudget == 2

\* ------------------------------------------------------- runtime parameters
\* T::BridgeDeposit and the currency's existential deposit.
BridgeDeposit == 2
ExistentialDeposit == 1

\* ------------------------------------------------------------ result values
Ok(v) == [ok |-> TRUE, val |-> v]
Err(e) == [ok |-> FALSE, err |-> e]

\* Partial maps (storage maps): insert and remove a key.
Put(m, k, v) == [x \in DOMAIN m \cup {k} |-> IF x = k THEN v ELSE m[x]]
Remove(m, k) == [x \in DOMAIN m \ {k} |-> m[x]]
EmptyMap == [x \in {} |-> 0]

\* --------------------------------------------------------------- XCM layer
\* Versions a VersionedInteriorLocation may be encoded in; xcm::latest::VERSION.
XcmVersions == {"V2", "V3", "V4"}
LatestXcmVersion == "V4"

\* Global consensus networks: the runtime's own, the configured bridged one,
\* and one that is neither.
ThisNetwork == "RelayNetwork"
BridgedNetwork == "BridgedRelayNetwork"
NonBridgedNetwork == "NonBridgedRelayNetwork"

\* Universal (interior) locations are <<network, parachain>>.
bridged_asset_hub_universal_location == <<BridgedNetwork, "BridgedAssetHub">>
local_asset_hub_universal_location == <<ThisNetwork, "BridgedAssetHub">>
non_bridged_asset_hub_universal_location == <<NonBridgedNetwork, "BridgedAssetHub">>

\* The origins the runtime's OpenBridgeOrigin filter is exercised with.
Origins ==
  { "disallowed_origin", "parent_relay_chain_origin", "sibling_parachain_origin",
    "parent_relay_chain_universal_origin", "sibling_parachain_universal_origin",
    "origin_without_sovereign_account" }

\* T::OpenBridgeOrigin::ensure_origin: the location of an allowed origin.
ensure_origin(origin) ==
  CASE origin = "disallowed_origin" -> Err("BadOrigin")
    [] origin = "parent_relay_chain_origin" -> Ok([relative |-> TRUE, loc |-> "Parent"])
    [] origin = "sibling_parachain_origin" -> Ok([relative |-> TRUE, loc |-> "Sibling"])
    [] origin = "parent_relay_chain_universal_origin" ->
         Ok([relative |-> FALSE, loc |-> "Parent"])
    [] origin = "sibling_parachain_universal_origin" ->
         Ok([relative |-> FALSE, loc |-> "Sibling"])
    [] origin = "origin_without_sovereign_account" ->
         Ok([relative |-> TRUE, loc |-> "SiblingWithoutAccount"])

\* A versioned location: the wire version and the location it carries.
Versioned(version, location) == [version |-> version, location |-> location]

\* VersionedInteriorLocation::identify_version.
identify_version(versioned) == versioned.version

\* TryInto<InteriorLocation> / try_as: V2 has no GlobalConsensus junction, so a
\* V2 value does not convert to the latest version.
try_into_latest(versioned) ==
  IF versioned.version = "V2" THEN Err("UnsupportedXcmVersion")
  ELSE Ok(versioned.location)

\* From<Location> for VersionedLocation: wraps in the latest version.
into_versioned(location) == Versioned(LatestXcmVersion, location)

\* BridgeId::new: a hash of both universal locations (collision free).
BridgeId_new(origin_universal, destination_universal) ==
  <<origin_universal, destination_universal>>

\* BridgeLocations::bridge_locations with the runtime's UniversalLocation and
\* the configured bridged network.
bridge_locations(origin_location, destination_universal) ==
  IF ~origin_location.relative THEN Err("BridgeLocations(InvalidBridgeOrigin)")
  ELSE IF destination_universal[1] = ThisNetwork
    THEN Err("BridgeLocations(DestinationIsLocal)")
  ELSE IF destination_universal[1] # BridgedNetwork
    THEN Err("BridgeLocations(UnreachableDestination)")
  ELSE LET origin_universal == <<ThisNetwork, origin_location.loc>> IN
    Ok([ bridge_origin_relative_location |-> origin_location,
         bridge_origin_universal_location |-> origin_universal,
         bridge_destination_universal_location |-> destination_universal,
         bridge_id |-> BridgeId_new(origin_universal, destination_universal) ])

\* BridgeLocations::calculate_lane_id: a hash of both universal locations as
\* encoded in the given XCM version.
calculate_lane_id(locations, xcm_version) ==
  IF xcm_version = "V2" THEN Err("BridgeLocations(UnsupportedXcmVersion)")
  ELSE Ok(<<locations.bridge_origin_universal_location,
            locations.bridge_destination_universal_location, xcm_version>>)

\* The locations computed for the parent chain whatever allowed origin calls.
bridge_locations_from_origin_unconverted(origin, destination) ==
  LET o == ensure_origin(origin) IN
  IF ~o.ok THEN Err(o.err)
  ELSE LET d == try_into_latest(destination) IN
    IF ~d.ok THEN Err("UnsupportedXcmVersion")
    ELSE bridge_locations([relative |-> TRUE, loc |-> "Parent"], d.val)

\* The destination converted before the origin is checked.
bridge_locations_from_origin_destination_first(origin, destination) ==
  LET d == try_into_latest(destination) IN
  IF ~d.ok THEN Err("UnsupportedXcmVersion")
  ELSE LET o == ensure_origin(origin) IN
    IF ~o.ok THEN Err(o.err)
    ELSE bridge_locations(o.val, d.val)

\* Pallet::bridge_locations_from_origin.
bridge_locations_from_origin(origin, destination) ==
  LET o == ensure_origin(origin) IN
  IF ~o.ok THEN Err(o.err)
  ELSE LET d == try_into_latest(destination) IN
    IF ~d.ok THEN Err("UnsupportedXcmVersion")
    ELSE bridge_locations(o.val, d.val)

\* T::BridgeOriginAccountIdConverter::convert_location.
Accounts == {"ParentAccount", "SiblingAccount"}
convert_location(location) ==
  CASE location.loc = "Parent" -> Ok("ParentAccount")
    [] location.loc = "Sibling" -> Ok("SiblingAccount")
    [] OTHER -> Err("None")

\* ------------------------------------------------------------ lanes manager
\* LanesManager of the messages pallet. A storage snapshot s is a record of
\* the storage items; every operation returns the snapshot it leaves.
NewInboundLane == [state |-> "Opened"]
NewOutboundLane ==
  [state |-> "Opened", oldest_unpruned_nonce |-> 1, latest_generated_nonce |-> 0]

create_inbound_lane(s, lane_id) ==
  IF lane_id \in DOMAIN s.InboundLanes THEN Err("InboundLaneAlreadyExists")
  ELSE Ok([s EXCEPT !.InboundLanes = Put(@, lane_id, NewInboundLane)])

create_outbound_lane(s, lane_id) ==
  IF lane_id \in DOMAIN s.OutboundLanes THEN Err("OutboundLaneAlreadyExists")
  ELSE Ok([s EXCEPT !.OutboundLanes = Put(@, lane_id, NewOutboundLane)])

any_state_inbound_lane(s, lane_id) ==
  IF lane_id \in DOMAIN s.InboundLanes THEN Ok(s.InboundLanes[lane_id])
  ELSE Err("UnknownInboundLane")

any_state_outbound_lane(s, lane_id) ==
  IF lane_id \in DOMAIN s.OutboundLanes THEN Ok(s.OutboundLanes[lane_id])
  ELSE Err("UnknownOutboundLane")

\* OutboundLane::queued_messages: the inclusive range of queued nonces.
queued_messages(lane) == lane.oldest_unpruned_nonce .. lane.latest_generated_nonce

\* RangeInclusiveExt::saturating_len.
saturating_len(range) == Cardinality(range)

\* A removal at the wrong end of the queue: the newest message is dropped.
remove_newest_message(lane) ==
  [lane EXCEPT !.latest_generated_nonce = @ - 1]

\* OutboundLane::remove_oldest_unpruned_message.
remove_oldest_unpruned_message(lane) ==
  [lane EXCEPT !.oldest_unpruned_nonce = @ + 1]

\* OutboundLane::send_message: the next nonce is generated and queued.
send_message(lane) == [lane EXCEPT !.latest_generated_nonce = @ + 1]

\* InboundLane::set_state / OutboundLane::set_state.
set_state(lane, state) == [lane EXCEPT !.state = state]

\* InboundLane::purge / OutboundLane::purge.
purge_inbound(s, lane_id) == [s EXCEPT !.InboundLanes = Remove(@, lane_id)]
purge_outbound(s, lane_id) == [s EXCEPT !.OutboundLanes = Remove(@, lane_id)]

\* ----------------------------------------------------------------- currency
Min(a, b) == IF a <= b THEN a ELSE b

\* MutateHold::hold: the held amount must leave the existential deposit free.
hold(s, who, amount) ==
  IF s.free[who] >= amount + ExistentialDeposit
  THEN Ok([s EXCEPT !.free[who] = @ - amount, !.held[who] = @ + amount])
  ELSE Err("FundsUnavailable")

\* MutateHold::release with Precision::BestEffort: what is held, up to amount,
\* or an error of the ledger's own, which leaves the balances alone.
release(s, who, amount) ==
  IF s.release_fails THEN Err("Unavailable") ELSE
  LET actual == Min(amount, s.held[who]) IN
  Ok([ st |-> [s EXCEPT !.free[who] = @ + actual, !.held[who] = @ - actual],
       released |-> actual ])

\* ------------------------------------------------------------- dispatchables
\* What a dispatchable leaves: its DispatchResult, the storage snapshot at the
\* point of return, and the event it deposited.
NoEvent == [kind |-> "NoEvent"]
Ret(res, st, event) == [res |-> res, st |-> st, event |-> event]

\* The storage layer every #[pallet::call] dispatchable runs in: the writes
\* of a call that returns Err are discarded.
with_storage_layer(s, r) == IF r.res = "Ok" THEN r ELSE Ret(r.res, s, NoEvent)

\* The Bridge record written with a zero reserve whatever was held.
NewBridge_zero_reserve(locations, bridge_owner_account, reserve, lane_id) ==
  [ bridge_origin_relative_location |->
      into_versioned(locations.bridge_origin_relative_location),
    bridge_origin_universal_location |->
      into_versioned(locations.bridge_origin_universal_location),
    bridge_destination_universal_location |->
      into_versioned(locations.bridge_destination_universal_location),
    state |-> "Opened",
    bridge_owner_account |-> bridge_owner_account,
    reserve |-> 0,
    lane_id |-> lane_id ]

\* The Bridge record open_bridge and the genesis build write.
NewBridge(locations, bridge_owner_account, reserve, lane_id) ==
  [ bridge_origin_relative_location |->
      into_versioned(locations.bridge_origin_relative_location),
    bridge_origin_universal_location |->
      into_versioned(locations.bridge_origin_universal_location),
    bridge_destination_universal_location |->
      into_versioned(locations.bridge_destination_universal_location),
    state |-> "Opened",
    bridge_owner_account |-> bridge_owner_account,
    reserve |-> reserve,
    lane_id |-> lane_id ]

\* "save bridge metadata" as a plain insert, which overwrites.
save_bridge_metadata_insert(s, locations, bridge_owner_account, deposit, lane_id) ==
  Ok([s EXCEPT !.Bridges =
        Put(@, locations.bridge_id,
            NewBridge(locations, bridge_owner_account, deposit, lane_id))])

\* open_bridge, "save bridge metadata": Bridges::try_mutate, a strict create.
save_bridge_metadata(s, locations, bridge_owner_account, deposit, lane_id) ==
  IF locations.bridge_id \in DOMAIN s.Bridges THEN Err("BridgeAlreadyExists")
  ELSE Ok([s EXCEPT !.Bridges =
             Put(@, locations.bridge_id,
                 NewBridge(locations, bridge_owner_account, deposit, lane_id))])

\* "save lane to bridge mapping" that checks but does not write.
save_lane_to_bridge_unwritten(s, lane_id, bridge_id) ==
  IF lane_id \in DOMAIN s.LaneToBridge THEN Err("BridgeAlreadyExists") ELSE Ok(s)

\* open_bridge, "save lane to bridge mapping": LaneToBridge::try_mutate.
save_lane_to_bridge(s, lane_id, bridge_id) ==
  IF lane_id \in DOMAIN s.LaneToBridge THEN Err("BridgeAlreadyExists")
  ELSE Ok([s EXCEPT !.LaneToBridge = Put(@, lane_id, bridge_id)])

\* open_bridge going on when the hold of the deposit was refused.
open_bridge_body_ignoring_hold(s, origin, destination) ==
  LET xcm_version == identify_version(destination)
      locs == bridge_locations_from_origin(origin, destination)
  IN
  IF ~locs.ok THEN Ret(locs.err, s, NoEvent) ELSE
  LET locations == locs.val
      lane == calculate_lane_id(locations, xcm_version)
  IN
  IF ~lane.ok THEN Ret(lane.err, s, NoEvent) ELSE
  LET lane_id == lane.val
      deposit == BridgeDeposit
      account == convert_location(locations.bridge_origin_relative_location)
  IN
  IF ~account.ok THEN Ret("InvalidBridgeOriginAccount", s, NoEvent) ELSE
  LET bridge_owner_account == account.val
      held_ == hold(s, bridge_owner_account, deposit)
      s0 == IF held_.ok THEN held_.val ELSE s
      saved == save_bridge_metadata(s0, locations, bridge_owner_account, deposit, lane_id)
  IN
  IF ~saved.ok THEN Ret(saved.err, s0, NoEvent) ELSE
  LET mapped == save_lane_to_bridge(saved.val, lane_id, locations.bridge_id) IN
  IF ~mapped.ok THEN Ret(mapped.err, saved.val, NoEvent) ELSE
  LET inbound == create_inbound_lane(mapped.val, lane_id) IN
  IF ~inbound.ok
    THEN Ret("LanesManager(" \o inbound.err \o ")", mapped.val, NoEvent) ELSE
  LET outbound == create_outbound_lane(inbound.val, lane_id) IN
  IF ~outbound.ok
    THEN Ret("LanesManager(" \o outbound.err \o ")", inbound.val, NoEvent) ELSE
  Ret("Ok", outbound.val,
      [ kind |-> "BridgeOpened",
        bridge_id |-> locations.bridge_id,
        bridge_deposit |-> deposit,
        local_endpoint |-> locations.bridge_origin_universal_location,
        remote_endpoint |-> locations.bridge_destination_universal_location,
        lane_id |-> lane_id ])

\* Body of Pallet::open_bridge, statement by statement.
open_bridge_body(s, origin, destination) ==
  LET xcm_version == identify_version(destination)
      locs == bridge_locations_from_origin(origin, destination)
  IN
  IF ~locs.ok THEN Ret(locs.err, s, NoEvent) ELSE
  LET locations == locs.val
      lane == calculate_lane_id(locations, xcm_version)
  IN
  IF ~lane.ok THEN Ret(lane.err, s, NoEvent) ELSE
  LET lane_id == lane.val
      deposit == BridgeDeposit
      account == convert_location(locations.bridge_origin_relative_location)
  IN
  IF ~account.ok THEN Ret("InvalidBridgeOriginAccount", s, NoEvent) ELSE
  LET bridge_owner_account == account.val
      held_ == hold(s, bridge_owner_account, deposit)
  IN
  IF ~held_.ok THEN Ret("FailedToReserveBridgeDeposit", s, NoEvent) ELSE
  LET saved == save_bridge_metadata(held_.val, locations, bridge_owner_account,
                                    deposit, lane_id)
  IN
  IF ~saved.ok THEN Ret(saved.err, held_.val, NoEvent) ELSE
  LET mapped == save_lane_to_bridge(saved.val, lane_id, locations.bridge_id) IN
  IF ~mapped.ok THEN Ret(mapped.err, saved.val, NoEvent) ELSE
  LET inbound == create_inbound_lane(mapped.val, lane_id) IN
  IF ~inbound.ok
    THEN Ret("LanesManager(" \o inbound.err \o ")", mapped.val, NoEvent) ELSE
  LET outbound == create_outbound_lane(inbound.val, lane_id) IN
  IF ~outbound.ok
    THEN Ret("LanesManager(" \o outbound.err \o ")", inbound.val, NoEvent) ELSE
  Ret("Ok", outbound.val,
      [ kind |-> "BridgeOpened",
        bridge_id |-> locations.bridge_id,
        bridge_deposit |-> deposit,
        local_endpoint |-> locations.bridge_origin_universal_location,
        remote_endpoint |-> locations.bridge_destination_universal_location,
        lane_id |-> lane_id ])

\* open_bridge dispatched without the storage layer: the writes made before
\* an Err survive.
open_bridge_without_storage_layer(s, origin, destination) ==
  open_bridge_body(s, origin, destination)

\* Pallet::open_bridge as dispatched.
open_bridge(s, origin, destination) ==
  with_storage_layer(s, open_bridge_body(s, origin, destination))

\* "update bridge metadata" that accepts a bridge in the Opened state only.
update_bridge_metadata_opened_only(s, bridge_id) ==
  IF bridge_id \notin DOMAIN s.Bridges \/ s.Bridges[bridge_id].state # "Opened"
  THEN Err("UnknownBridge")
  ELSE LET s1 == [s EXCEPT !.Bridges[bridge_id].state = "Closed"] IN
    Ok([st |-> s1, bridge |-> s1.Bridges[bridge_id]])

\* "update bridge metadata" that flips the state either way.
update_bridge_metadata_toggling_state(s, bridge_id) ==
  IF bridge_id \notin DOMAIN s.Bridges THEN Err("UnknownBridge")
  ELSE LET s1 == [s EXCEPT !.Bridges[bridge_id].state =
                     IF @ = "Opened" THEN "Closed" ELSE "Opened"] IN
    Ok([st |-> s1, bridge |-> s1.Bridges[bridge_id]])

\* "update bridge metadata" that refuses a bridge that is Closed already.
update_bridge_metadata_rejecting_closed(s, bridge_id) ==
  IF bridge_id \notin DOMAIN s.Bridges THEN Err("UnknownBridge")
  ELSE IF s.Bridges[bridge_id].state = "Closed" THEN Err("BridgeAlreadyClosed")
  ELSE LET s1 == [s EXCEPT !.Bridges[bridge_id].state = "Closed"] IN
    Ok([st |-> s1, bridge |-> s1.Bridges[bridge_id]])

\* close_bridge, "update bridge metadata": Bridges::try_mutate_exists sets the
\* state to Closed and hands back a copy of the record.
update_bridge_metadata(s, bridge_id) ==
  IF bridge_id \notin DOMAIN s.Bridges THEN Err("UnknownBridge")
  ELSE LET s1 == [s EXCEPT !.Bridges[bridge_id].state = "Closed"] IN
    Ok([st |-> s1, bridge |-> s1.Bridges[bridge_id]])

\* The pruning loop leaving at once: nothing is ever pruned.
prune_queued_messages_never(lane, iterations, pruned_messages, may_prune_messages) ==
  [lane |-> lane, pruned_messages |-> pruned_messages]

\* The pruning loop with its budget test off by one: it stops only after the
\* budget has been exceeded.
RECURSIVE prune_queued_messages_past_budget(_, _, _, _)
prune_queued_messages_past_budget(lane, iterations, pruned_messages, may_prune_messages) ==
  IF iterations = 0 \/ pruned_messages > may_prune_messages
  THEN [lane |-> lane, pruned_messages |-> pruned_messages]
  ELSE prune_queued_messages_past_budget(remove_oldest_unpruned_message(lane),
         iterations - 1, pruned_messages + 1, may_prune_messages)

\* The pruning loop taking the messages from the newest end of the queue.
RECURSIVE prune_queued_messages_newest_first(_, _, _, _)
prune_queued_messages_newest_first(lane, iterations, pruned_messages, may_prune_messages) ==
  IF iterations = 0 \/ pruned_messages = may_prune_messages
  THEN [lane |-> lane, pruned_messages |-> pruned_messages]
  ELSE prune_queued_messages_newest_first(remove_newest_message(lane),
         iterations - 1, pruned_messages + 1, may_prune_messages)

\* close_bridge, "now prune queued messages": one iteration per nonce of the
\* range taken before the loop, left early once the budget is spent.
RECURSIVE prune_queued_messages(_, _, _, _)
prune_queued_messages(lane, iterations, pruned_messages, may_prune_messages) ==
  IF iterations = 0 \/ pruned_messages = may_prune_messages
  THEN [lane |-> lane, pruned_messages |-> pruned_messages]
  ELSE prune_queued_messages(remove_oldest_unpruned_message(lane), iterations - 1,
                             pruned_messages + 1, may_prune_messages)

\* The early exit closing the outbound lane only.
closing_bridge_outbound_only(s, locations, bridge, inbound_lane, outbound_lane, pruned_messages) ==
  Ret("Ok",
      [s EXCEPT !.OutboundLanes[bridge.lane_id] = set_state(outbound_lane, "Closed")],
      [ kind |-> "ClosingBridge",
        bridge_id |-> locations.bridge_id,
        lane_id |-> bridge.lane_id,
        pruned_messages |-> pruned_messages,
        enqueued_messages |-> saturating_len(queued_messages(outbound_lane)) ])

\* The early exit reporting the length the queue had before the pruning.
closing_bridge_reporting_old_length(s, locations, bridge, inbound_lane, outbound_lane, pruned_messages) ==
  Ret("Ok",
      [s EXCEPT !.InboundLanes[bridge.lane_id] = set_state(inbound_lane, "Closed"),
                !.OutboundLanes[bridge.lane_id] = set_state(outbound_lane, "Closed")],
      [ kind |-> "ClosingBridge",
        bridge_id |-> locations.bridge_id,
        lane_id |-> bridge.lane_id,
        pruned_messages |-> pruned_messages,
        enqueued_messages |->
          saturating_len(queued_messages(outbound_lane)) + pruned_messages ])

\* close_bridge, the early exit taken while outbound messages remain: both
\* lanes are set to Closed and ClosingBridge is deposited.
closing_bridge(s, locations, bridge, inbound_lane, outbound_lane, pruned_messages) ==
  Ret("Ok",
      [s EXCEPT !.InboundLanes[bridge.lane_id] = set_state(inbound_lane, "Closed"),
                !.OutboundLanes[bridge.lane_id] = set_state(outbound_lane, "Closed")],
      [ kind |-> "ClosingBridge",
        bridge_id |-> locations.bridge_id,
        lane_id |-> bridge.lane_id,
        pruned_messages |-> pruned_messages,
        enqueued_messages |-> saturating_len(queued_messages(outbound_lane)) ])

\* The final pruning without LaneToBridge::remove.
prune_bridge_keeping_lane_mapping(s, locations, bridge, pruned_messages) ==
  LET s1 == purge_outbound(purge_inbound(s, bridge.lane_id), bridge.lane_id)
      s2 == [s1 EXCEPT !.Bridges = Remove(@, locations.bridge_id)]
      released_deposit == release(s2, bridge.bridge_owner_account, bridge.reserve)
  IN
  Ret("Ok", released_deposit.val.st,
      [ kind |-> "BridgePruned",
        bridge_id |-> locations.bridge_id,
        lane_id |-> bridge.lane_id,
        bridge_deposit |-> Ok(released_deposit.val.released),
        pruned_messages |-> pruned_messages ])

\* The final pruning without the purge of the inbound lane.
prune_bridge_keeping_inbound_lane(s, locations, bridge, pruned_messages) ==
  LET s1 == purge_outbound(s, bridge.lane_id)
      s2 == [s1 EXCEPT !.Bridges = Remove(@, locations.bridge_id)]
      s3 == [s2 EXCEPT !.LaneToBridge = Remove(@, bridge.lane_id)]
      released_deposit == release(s3, bridge.bridge_owner_account, bridge.reserve)
  IN
  Ret("Ok", released_deposit.val.st,
      [ kind |-> "BridgePruned",
        bridge_id |-> locations.bridge_id,
        lane_id |-> bridge.lane_id,
        bridge_deposit |-> Ok(released_deposit.val.released),
        pruned_messages |-> pruned_messages ])

\* The final pruning without Bridges::remove.
prune_bridge_keeping_bridge_record(s, locations, bridge, pruned_messages) ==
  LET s1 == purge_outbound(purge_inbound(s, bridge.lane_id), bridge.lane_id)
      s3 == [s1 EXCEPT !.LaneToBridge = Remove(@, bridge.lane_id)]
      released_deposit == release(s3, bridge.bridge_owner_account, bridge.reserve)
  IN
  Ret("Ok",
      IF released_deposit.ok THEN released_deposit.val.st ELSE s3,
      [ kind |-> "BridgePruned",
        bridge_id |-> locations.bridge_id,
        lane_id |-> bridge.lane_id,
        bridge_deposit |->
          IF released_deposit.ok THEN Ok(released_deposit.val.released)
          ELSE Err("None"),
        pruned_messages |-> pruned_messages ])

\* The final pruning without the purge of the outbound lane.
prune_bridge_keeping_outbound_lane(s, locations, bridge, pruned_messages) ==
  LET s1 == purge_inbound(s, bridge.lane_id)
      s2 == [s1 EXCEPT !.Bridges = Remove(@, locations.bridge_id)]
      s3 == [s2 EXCEPT !.LaneToBridge = Remove(@, bridge.lane_id)]
      released_deposit == release(s3, bridge.bridge_owner_account, bridge.reserve)
  IN
  Ret("Ok",
      IF released_deposit.ok THEN released_deposit.val.st ELSE s3,
      [ kind |-> "BridgePruned",
        bridge_id |-> locations.bridge_id,
        lane_id |-> bridge.lane_id,
        bridge_deposit |->
          IF released_deposit.ok THEN Ok(released_deposit.val.released)
          ELSE Err("None"),
        pruned_messages |-> pruned_messages ])

\* The final pruning without the release of the reserve.
prune_bridge_keeping_reserve(s, locations, bridge, pruned_messages) ==
  LET s1 == purge_outbound(purge_inbound(s, bridge.lane_id), bridge.lane_id)
      s2 == [s1 EXCEPT !.Bridges = Remove(@, locations.bridge_id)]
      s3 == [s2 EXCEPT !.LaneToBridge = Remove(@, bridge.lane_id)]
  IN
  Ret("Ok", s3,
      [ kind |-> "BridgePruned",
        bridge_id |-> locations.bridge_id,
        lane_id |-> bridge.lane_id,
        bridge_deposit |-> Err("None"),
        pruned_messages |-> pruned_messages ])

\* The final pruning with the release error propagated by the ? operator.
prune_bridge_failing_on_release(s, locations, bridge, pruned_messages) ==
  LET s1 == purge_outbound(purge_inbound(s, bridge.lane_id), bridge.lane_id)
      s2 == [s1 EXCEPT !.Bridges = Remove(@, locations.bridge_id)]
      s3 == [s2 EXCEPT !.LaneToBridge = Remove(@, bridge.lane_id)]
      released_deposit == release(s3, bridge.bridge_owner_account, bridge.reserve)
  IN
  IF ~released_deposit.ok THEN Ret(released_deposit.err, s3, NoEvent) ELSE
  Ret("Ok", released_deposit.val.st,
      [ kind |-> "BridgePruned",
        bridge_id |-> locations.bridge_id,
        lane_id |-> bridge.lane_id,
        bridge_deposit |-> Ok(released_deposit.val.released),
        pruned_messages |-> pruned_messages ])

\* The final pruning clearing the whole LaneToBridge map.
prune_bridge_clearing_lane_mappings(s, locations, bridge, pruned_messages) ==
  LET s1 == purge_outbound(purge_inbound(s, bridge.lane_id), bridge.lane_id)
      s2 == [s1 EXCEPT !.Bridges = Remove(@, locations.bridge_id)]
      s3 == [s2 EXCEPT !.LaneToBridge = EmptyMap]
      released_deposit == release(s3, bridge.bridge_owner_account, bridge.reserve)
  IN
  Ret("Ok",
      IF released_deposit.ok THEN released_deposit.val.st ELSE s3,
      [ kind |-> "BridgePruned",
        bridge_id |-> locations.bridge_id,
        lane_id |-> bridge.lane_id,
        bridge_deposit |->
          IF released_deposit.ok THEN Ok(released_deposit.val.released)
          ELSE Err("None"),
        pruned_messages |-> pruned_messages ])

\* close_bridge, once all messages are pruned: lanes purged, both map entries
\* removed, the reserve released at best effort and BridgePruned deposited.
prune_bridge(s, locations, bridge, pruned_messages) ==
  LET s1 == purge_outbound(purge_inbound(s, bridge.lane_id), bridge.lane_id)
      s2 == [s1 EXCEPT !.Bridges = Remove(@, locations.bridge_id)]
      s3 == [s2 EXCEPT !.LaneToBridge = Remove(@, bridge.lane_id)]
      released_deposit == release(s3, bridge.bridge_owner_account, bridge.reserve)
  IN
  Ret("Ok",
      IF released_deposit.ok THEN released_deposit.val.st ELSE s3,
      [ kind |-> "BridgePruned",
        bridge_id |-> locations.bridge_id,
        lane_id |-> bridge.lane_id,
        bridge_deposit |->
          IF released_deposit.ok THEN Ok(released_deposit.val.released)
          ELSE Err("None"),
        pruned_messages |-> pruned_messages ])

\* Body of Pallet::close_bridge, statement by statement.
close_bridge_body(s, origin, destination, may_prune_messages) ==
  LET locs == bridge_locations_from_origin(origin, destination) IN
  IF ~locs.ok THEN Ret(locs.err, s, NoEvent) ELSE
  LET locations == locs.val
      updated == update_bridge_metadata(s, locations.bridge_id)
  IN
  IF ~updated.ok THEN Ret(updated.err, s, NoEvent) ELSE
  LET s1 == updated.val.st
      bridge == updated.val.bridge
      inbound == any_state_inbound_lane(s1, bridge.lane_id)
  IN
  IF ~inbound.ok THEN Ret("LanesManager(" \o inbound.err \o ")", s1, NoEvent) ELSE
  LET outbound == any_state_outbound_lane(s1, bridge.lane_id) IN
  IF ~outbound.ok THEN Ret("LanesManager(" \o outbound.err \o ")", s1, NoEvent) ELSE
  LET pruned == prune_queued_messages(outbound.val,
                  saturating_len(queued_messages(outbound.val)), 0,
                  may_prune_messages)
      s2 == [s1 EXCEPT !.OutboundLanes[bridge.lane_id] = pruned.lane]
  IN
  IF queued_messages(pruned.lane) # {}
  THEN closing_bridge(s2, locations, bridge, inbound.val, pruned.lane,
                      pruned.pruned_messages)
  ELSE prune_bridge(s2, locations, bridge, pruned.pruned_messages)

\* close_bridge dispatched without the storage layer: the Closed state written
\* before an Err survives.
close_bridge_without_storage_layer(s, origin, destination, may_prune_messages) ==
  close_bridge_body(s, origin, destination, may_prune_messages)

\* Pallet::close_bridge as dispatched.
close_bridge(s, origin, destination, may_prune_messages) ==
  with_storage_layer(s, close_bridge_body(s, origin, destination, may_prune_messages))

\* -------------------------------------------------------------------- audit
\* TryAs<Location>: a reference to the latest-version value, if it is one.
try_as_latest(versioned) ==
  IF versioned.version = LatestXcmVersion THEN Ok(versioned.location)
  ELSE Err("needs migration")

\* The diagnostics of do_try_state_for_bridge.
LaneToBridgeInconsistency ==
  "Found LaneToBridge inconsistency for bridge_id - missing mapping!"
RelativeLocationNotLatest ==
  "bridge.bridge_origin_relative_location cannot be converted to the latest XCM, needs migration!"
OriginLocationNotLatest ==
  "bridge.bridge_origin_universal_location cannot be converted to the latest XCM, needs migration!"
DestinationLocationNotLatest ==
  "bridge.bridge_destination_universal_location cannot be converted to the latest XCM, needs migration!"
BridgeIdMismatch ==
  "bridge_id is different than calculated from bridge_origin_universal_location_as_latest and bridge_destination_universal_location_as_latest, needs migration!"
OwnerAccountMismatch ==
  "bridge.bridge_owner_account is different than calculated from bridge.bridge_origin_relative_location, needs migration!"

\* The audit of one bridge with the owner checked before the bridge_id.
do_try_state_for_bridge_owner_first(s, bridge_id, bridge) ==
  IF ~(bridge.lane_id \in DOMAIN s.LaneToBridge
       /\ s.LaneToBridge[bridge.lane_id] = bridge_id)
    THEN Err(LaneToBridgeInconsistency)
  ELSE
  LET relative == try_as_latest(bridge.bridge_origin_relative_location)
      origin == try_as_latest(bridge.bridge_origin_universal_location)
      destination == try_as_latest(bridge.bridge_destination_universal_location)
  IN
  IF ~relative.ok THEN Err(RelativeLocationNotLatest)
  ELSE IF ~origin.ok THEN Err(OriginLocationNotLatest)
  ELSE IF ~destination.ok THEN Err(DestinationLocationNotLatest)
  ELSE IF convert_location(relative.val) # Ok(bridge.bridge_owner_account)
    THEN Err(OwnerAccountMismatch)
  ELSE IF bridge_id # BridgeId_new(origin.val, destination.val)
    THEN Err(BridgeIdMismatch)
  ELSE Ok(bridge.lane_id)

\* The audit of one bridge without its look at the reverse index.
do_try_state_for_bridge_ignoring_reverse_index(s, bridge_id, bridge) ==
  LET relative == try_as_latest(bridge.bridge_origin_relative_location)
      origin == try_as_latest(bridge.bridge_origin_universal_location)
      destination == try_as_latest(bridge.bridge_destination_universal_location)
  IN
  IF ~relative.ok THEN Err(RelativeLocationNotLatest)
  ELSE IF ~origin.ok THEN Err(OriginLocationNotLatest)
  ELSE IF ~destination.ok THEN Err(DestinationLocationNotLatest)
  ELSE IF bridge_id # BridgeId_new(origin.val, destination.val)
    THEN Err(BridgeIdMismatch)
  ELSE IF convert_location(relative.val) # Ok(bridge.bridge_owner_account)
    THEN Err(OwnerAccountMismatch)
  ELSE Ok(bridge.lane_id)

\* Pallet::do_try_state_for_bridge.
do_try_state_for_bridge(s, bridge_id, bridge) ==
  IF ~(bridge.lane_id \in DOMAIN s.LaneToBridge
       /\ s.LaneToBridge[bridge.lane_id] = bridge_id)
    THEN Err(LaneToBridgeInconsistency)
  ELSE
  LET relative == try_as_latest(bridge.bridge_origin_relative_location)
      origin == try_as_latest(bridge.bridge_origin_universal_location)
      destination == try_as_latest(bridge.bridge_destination_universal_location)
  IN
  IF ~relative.ok THEN Err(RelativeLocationNotLatest)
  ELSE IF ~origin.ok THEN Err(OriginLocationNotLatest)
  ELSE IF ~destination.ok THEN Err(DestinationLocationNotLatest)
  ELSE IF bridge_id # BridgeId_new(origin.val, destination.val)
    THEN Err(BridgeIdMismatch)
  ELSE IF convert_location(relative.val) # Ok(bridge.bridge_owner_account)
    THEN Err(OwnerAccountMismatch)
  ELSE Ok(bridge.lane_id)

\* The audit without its comparison of the lanes with LaneToBridge.
do_try_state_without_reverse_count(s) ==
  LET checked == [b \in DOMAIN s.Bridges |-> do_try_state_for_bridge(s, b, s.Bridges[b])]
      failing == {b \in DOMAIN s.Bridges : ~checked[b].ok}
      lanes == {checked[b].val : b \in DOMAIN s.Bridges \ failing}
  IN
  IF failing # {} THEN Err(checked[CHOOSE b \in failing : TRUE].err)
  ELSE IF Cardinality(lanes) # Cardinality(DOMAIN s.Bridges)
    THEN Err("Invalid Bridges configuration, probably two bridges handle the same laneId!")
  ELSE Ok("()")

\* Pallet::do_try_state: every bridge is checked, then the three collections
\* are compared by size. The first failing bridge in iteration order decides.
do_try_state(s) ==
  LET checked == [b \in DOMAIN s.Bridges |-> do_try_state_for_bridge(s, b, s.Bridges[b])]
      failing == {b \in DOMAIN s.Bridges : ~checked[b].ok}
      lanes == {checked[b].val : b \in DOMAIN s.Bridges \ failing}
  IN
  IF failing # {} THEN Err(checked[CHOOSE b \in failing : TRUE].err)
  ELSE IF Cardinality(lanes) # Cardinality(DOMAIN s.Bridges)
    THEN Err("Invalid Bridges configuration, probably two bridges handle the same laneId!")
  ELSE IF Cardinality(lanes) # Cardinality(DOMAIN s.LaneToBridge)
    THEN Err("Invalid LaneToBridge configuration, probably missing or not removed laneId!")
  ELSE Ok("()")

\* Pallet::bridge_by_lane_id.
bridge_by_lane_id(s, lane_id) ==
  IF lane_id \in DOMAIN s.LaneToBridge /\ s.LaneToBridge[lane_id] \in DOMAIN s.Bridges
  THEN Ok(<<s.LaneToBridge[lane_id], s.Bridges[s.LaneToBridge[lane_id]]>>)
  ELSE Err("None")

\* ------------------------------------------------------------------ genesis
\* The genesis build recording the deposit as reserved without holding it.
build_one_recording_deposit(s, entry) ==
  LET locs == bridge_locations(entry[1], entry[2]) IN
  IF ~locs.ok THEN Err("Invalid genesis configuration") ELSE
  LET locations == locs.val
      lane == calculate_lane_id(locations, LatestXcmVersion)
      account == convert_location(locations.bridge_origin_relative_location)
  IN
  IF ~lane.ok THEN Err("Valid locations")
  ELSE IF ~account.ok THEN Err("Invalid genesis configuration") ELSE
  LET lane_id == lane.val
      s1 == [s EXCEPT !.Bridges =
               Put(@, locations.bridge_id,
                   NewBridge(locations, account.val, BridgeDeposit, lane_id)),
             !.LaneToBridge = Put(@, lane_id, locations.bridge_id)]
      inbound == create_inbound_lane(s1, lane_id)
  IN
  IF ~inbound.ok THEN Err("Invalid genesis configuration") ELSE
  LET outbound == create_outbound_lane(inbound.val, lane_id) IN
  IF ~outbound.ok THEN Err("Invalid genesis configuration") ELSE Ok(outbound.val)

\* GenesisConfig::build for one (relative origin, universal destination)
\* entry of opened_bridges; Err stands for the panic of an expect.
build_one(s, entry) ==
  LET locs == bridge_locations(entry[1], entry[2]) IN
  IF ~locs.ok THEN Err("Invalid genesis configuration") ELSE
  LET locations == locs.val
      lane == calculate_lane_id(locations, LatestXcmVersion)
      account == convert_location(locations.bridge_origin_relative_location)
  IN
  IF ~lane.ok THEN Err("Valid locations")
  ELSE IF ~account.ok THEN Err("Invalid genesis configuration") ELSE
  LET lane_id == lane.val
      s1 == [s EXCEPT !.Bridges =
               Put(@, locations.bridge_id, NewBridge(locations, account.val, 0, lane_id)),
             !.LaneToBridge = Put(@, lane_id, locations.bridge_id)]
      inbound == create_inbound_lane(s1, lane_id)
  IN
  IF ~inbound.ok THEN Err("Invalid genesis configuration") ELSE
  LET outbound == create_outbound_lane(inbound.val, lane_id) IN
  IF ~outbound.ok THEN Err("Invalid genesis configuration") ELSE Ok(outbound.val)

\* GenesisConfig::build over the opened_bridges list.
RECURSIVE build(_, _)
build(s, opened_bridges) ==
  IF opened_bridges = <<>> THEN Ok(s)
  ELSE LET first == build_one(s, Head(opened_bridges)) IN
    IF ~first.ok THEN first ELSE build(first.val, Tail(opened_bridges))

\* -------------------------------------------------------------------- state
VARIABLES
  Bridges,        \* storage map BridgeId -> Bridge
  LaneToBridge,   \* storage map LaneId -> BridgeId
  InboundLanes,   \* messages pallet: LaneId -> inbound lane data
  OutboundLanes,  \* messages pallet: LaneId -> outbound lane data
  free,           \* currency: free balance of every account
  held,           \* currency: balance held under HoldReason::BridgeDeposit
  release_fails,  \* currency: whether a release is answered with an error
  last            \* the call made last, with its result and its event

vars ==
  <<Bridges, LaneToBridge, InboundLanes, OutboundLanes, free, held, release_fails, last>>
storage_vars ==
  <<Bridges, LaneToBridge, InboundLanes, OutboundLanes, free, held, release_fails>>

\* The storage as one snapshot, and its commit.
Storage ==
  [ Bridges |-> Bridges, LaneToBridge |-> LaneToBridge,
    InboundLanes |-> InboundLanes, OutboundLanes |-> OutboundLanes,
    free |-> free, held |-> held, release_fails |-> release_fails ]

Commit(s) ==
  /\ Bridges' = s.Bridges
  /\ LaneToBridge' = s.LaneToBridge
  /\ InboundLanes' = s.InboundLanes
  /\ OutboundLanes' = s.OutboundLanes
  /\ free' = s.free
  /\ held' = s.held
  /\ release_fails' = s.release_fails

\* Destinations callers present: the bridged asset hub in each wire version,
\* a destination inside the local consensus, one outside the bridged one.
Destinations ==
  { Versioned("V4", bridged_asset_hub_universal_location),
    Versioned("V3", bridged_asset_hub_universal_location),
    Versioned("V2", bridged_asset_hub_universal_location),
    Versioned("V4", local_asset_hub_universal_location),
    Versioned("V4", non_bridged_asset_hub_universal_location) }

Budgets == 0 .. MaxBudget

\* Entries the genesis opened_bridges list is drawn from.
GenesisEntries ==
  { <<[relative |-> TRUE, loc |-> "Parent"], bridged_asset_hub_universal_location>>,
    <<[relative |-> TRUE, loc |-> "Sibling"], bridged_asset_hub_universal_location>> }

MaxGenesisBridges == 2
GenesisConfigs ==
  UNION {[1 .. n -> GenesisEntries] : n \in 0 .. MaxGenesisBridges}

\* Balances the sovereign accounts are funded with before the first block:
\* the parent can pay two deposits, the sibling one deposit or nothing.
InitialBalances ==
  { [a \in Accounts |-> IF a = "ParentAccount"
                          THEN 2 * BridgeDeposit + ExistentialDeposit ELSE f] :
      f \in {0, BridgeDeposit + ExistentialDeposit} }

\* Lanes the messages pallet may have been given at genesis on its own.
ForeignLanes ==
  { <<<<ThisNetwork, "Parent">>, bridged_asset_hub_universal_location, "V4">> }

EmptyStorage(balances, inbound, outbound) ==
  [ Bridges |-> EmptyMap, LaneToBridge |-> EmptyMap,
    InboundLanes |-> [l \in inbound |-> NewInboundLane],
    OutboundLanes |-> [l \in outbound |-> NewOutboundLane],
    free |-> balances, held |-> [a \in Accounts |-> 0], release_fails |-> FALSE ]

Call(op, res, event) == [op |-> op, res |-> res, event |-> event]

GenesisCall == Call("genesis", "Ok", NoEvent)

\* The chain after its genesis build, for the opened_bridges lists of
\* configs, the account fundings of fundings and the given foreign lanes.
InitFunded(configs, fundings, inbound, outbound) ==
  \E opened_bridges \in configs, balances \in fundings :
    LET genesis == build(EmptyStorage(balances, inbound, outbound), opened_bridges) IN
    /\ genesis.ok
    /\ Bridges = genesis.val.Bridges
    /\ LaneToBridge = genesis.val.LaneToBridge
    /\ InboundLanes = genesis.val.InboundLanes
    /\ OutboundLanes = genesis.val.OutboundLanes
    /\ free = genesis.val.free
    /\ held = genesis.val.held
    /\ release_fails = genesis.val.release_fails
    /\ last = GenesisCall

InitWith(configs, inbound, outbound) ==
  InitFunded(configs, InitialBalances, inbound, outbound)

\* A chain whose only lanes are those of its genesis bridges.
Init == InitWith(GenesisConfigs, {}, {})

\* A chain without genesis bridges on which the messages pallet already has
\* an inbound lane, an outbound lane or both.
InitForeignLanes ==
  \E inbound \in SUBSET ForeignLanes, outbound \in SUBSET ForeignLanes :
    /\ inbound \cup outbound # {}
    /\ InitWith({<<>>}, inbound, outbound)

\* The bridge_id a call with this origin and destination resolves to.
BridgeIdOfCall(origin, destination) ==
  bridge_locations_from_origin(origin, destination).val.bridge_id

\* ------------------------------------------------------------------ actions
OpenBridge(origin, destination) ==
  \E r \in {open_bridge(Storage, origin, destination)} :
    /\ Commit(r.st)
    /\ last' = Call("open_bridge", r.res, r.event)

CloseBridge(origin, destination, may_prune_messages) ==
  \E r \in {close_bridge(Storage, origin, destination, may_prune_messages)} :
    /\ Commit(r.st)
    /\ last' = Call("close_bridge", r.res, r.event)

\* enqueue_message: a message is sent over an active (Opened) outbound lane.
EnqueueMessage(lane_id) ==
  /\ lane_id \in DOMAIN OutboundLanes
  /\ OutboundLanes[lane_id].state = "Opened"
  /\ OutboundLanes[lane_id].latest_generated_nonce < MaxNonce
  /\ OutboundLanes' = [OutboundLanes EXCEPT ![lane_id] = send_message(@)]
  /\ last' = Call("enqueue_message", "Ok",
                  [ kind |-> "MessageAccepted", lane_id |-> lane_id,
                    nonce |-> OutboundLanes[lane_id].latest_generated_nonce + 1 ])
  /\ UNCHANGED <<Bridges, LaneToBridge, InboundLanes, free, held, release_fails>>

Next ==
  \/ \E origin \in Origins, destination \in Destinations :
       OpenBridge(origin, destination)
  \/ \E origin \in Origins, destination \in Destinations, budget \in Budgets :
       CloseBridge(origin, destination, budget)
  \/ \E lane_id \in DOMAIN OutboundLanes : EnqueueMessage(lane_id)

Spec == Init /\ [][Next]_vars

SpecForeignLanes == InitForeignLanes /\ [][Next]_vars

\* The owners of the two bridges and the destinations that resolve to them.
BridgeOwnerOrigins == {"parent_relay_chain_origin", "sibling_parachain_origin"}
BridgedDestinations ==
  {d \in Destinations : bridge_locations_from_origin("parent_relay_chain_origin", d).ok}
BridgeIds ==
  {BridgeIdOfCall(origin, d) : origin \in BridgeOwnerOrigins, d \in BridgedDestinations}

\* The owner has a bridge that a close_bridge call has already put in the
\* Closed state and that is not pruned yet.
HasClosedBridge(origin) ==
  \E destination \in BridgedDestinations :
    /\ BridgeIdOfCall(origin, destination) \in DOMAIN Bridges
    /\ Bridges[BridgeIdOfCall(origin, destination)].state = "Closed"

\* The owner of a Closed bridge calls close_bridge for it again, with a budget
\* of at least one message.
OwnerKeepsClosing(origin) ==
  /\ HasClosedBridge(origin)
  /\ \E destination \in BridgedDestinations, budget \in 1 .. MaxBudget :
       CloseBridge(origin, destination, budget)

\* Weak fairness of the repeated close_bridge calls of each owner, written out:
\* WF_vars(A) is []<>~(ENABLED <<A>>_vars) \/ []<><<A>>_vars, and the calls of
\* OwnerKeepsClosing(origin) are enabled exactly while HasClosedBridge(origin),
\* as such a call prunes a message or, on an empty queue, deletes the bridge.
SpecOwnersKeepClosing ==
  Spec /\ \A origin \in BridgeOwnerOrigins :
            \/ []<>~HasClosedBridge(origin)
            \/ []<><<OwnerKeepsClosing(origin)>>_vars

\* ------------------------------------------------------------------- claims
\* A call "exists for" a bridge when its origin and destination resolve to
\* locations whose bridge_id is a key of Bridges.
ResolvesToBridge(origin, destination) ==
  LET locs == bridge_locations_from_origin(origin, destination) IN
  locs.ok /\ locs.val.bridge_id \in DOMAIN Bridges

BridgeIdOf(origin, destination) == BridgeIdOfCall(origin, destination)

\* C1. Open atomicity: a step in which open_bridge returns an error leaves
\* Bridges, LaneToBridge, the lanes of the lane store and every free and held
\* balance exactly as they were.
OpenAtomicity ==
  [][(last'.op = "open_bridge" /\ last'.res # "Ok") => UNCHANGED storage_vars]_vars

\* C1 witness: open_bridge has failed at its last fallible step, the creation
\* of the outbound lane, after the hold, both map inserts and the inbound
\* lane; nothing of them is left.
OpenAtomicityWitness ==
  /\ last.op = "open_bridge"
  /\ last.res = "LanesManager(OutboundLaneAlreadyExists)"
  /\ DOMAIN Bridges = {}
  /\ DOMAIN InboundLanes = {}

\* C2 as stated: with a Bridge present for the pair, open_bridge returns
\* BridgeAlreadyExists whatever the owner's free balance is, and changes
\* nothing.
OpenUniquenessAnyBalance ==
  \A origin \in Origins, destination \in Destinations :
    ResolvesToBridge(origin, destination) =>
      LET r == open_bridge(Storage, origin, destination) IN
      r.res = "BridgeAlreadyExists" /\ r.st = Storage

\* C2 amended. With a Bridge present for the pair, open_bridge returns
\* BridgeAlreadyExists when the deposit hold on the owner can be placed and
\* FailedToReserveBridgeDeposit when it cannot; either way nothing changes.
OpenUniqueness ==
  \A origin \in Origins, destination \in Destinations :
    ResolvesToBridge(origin, destination) =>
      LET r == open_bridge(Storage, origin, destination)
          owner == convert_location(ensure_origin(origin).val).val
      IN
      /\ r.res = IF hold(Storage, owner, BridgeDeposit).ok
                 THEN "BridgeAlreadyExists" ELSE "FailedToReserveBridgeDeposit"
      /\ r.st = Storage
      /\ r.event = NoEvent

\* C2 witness: a second open_bridge has just been refused with
\* BridgeAlreadyExists and the bridge of the first one is in place.
OpenUniquenessWitness ==
  /\ last.op = "open_bridge"
  /\ last.res = "BridgeAlreadyExists"
  /\ \E b \in DOMAIN Bridges :
       /\ Bridges[b].state = "Opened"
       /\ Bridges[b].reserve = BridgeDeposit
       /\ held[Bridges[b].bridge_owner_account] = BridgeDeposit

\* Number of messages queued on the outbound lane of a bridge.
Queued(s, lane_id) == saturating_len(queued_messages(s.OutboundLanes[lane_id]))

\* C3. Close drain step: a successful close_bridge with budget B on a bridge
\* with R queued messages removes exactly min(B, R) of them; if R <= B the
\* bridge, its reverse-index entry and both lanes are gone after the call,
\* otherwise the bridge is kept with exactly R - B messages queued.
CloseDrainStep ==
  \A origin \in Origins, destination \in Destinations, budget \in Budgets :
    LET r == close_bridge(Storage, origin, destination, budget) IN
    r.res = "Ok" =>
      LET b == BridgeIdOf(origin, destination)
          lane_id == Bridges[b].lane_id
          R == Queued(Storage, lane_id)
      IN
      /\ r.event.pruned_messages = Min(budget, R)
      /\ IF R <= budget
         THEN /\ b \notin DOMAIN r.st.Bridges
              /\ lane_id \notin DOMAIN r.st.LaneToBridge
              /\ lane_id \notin DOMAIN r.st.InboundLanes
              /\ lane_id \notin DOMAIN r.st.OutboundLanes
         ELSE /\ b \in DOMAIN r.st.Bridges
              /\ lane_id \in DOMAIN r.st.OutboundLanes
              /\ Queued(r.st, lane_id) = R - budget

\* C3 witness: a close_bridge with budget 1 on two queued messages has pruned
\* one and left one, and the bridge is still there.
CloseDrainStepWitness ==
  /\ last.op = "close_bridge"
  /\ last.res = "Ok"
  /\ last.event.kind = "ClosingBridge"
  /\ last.event.pruned_messages = 1
  /\ last.event.enqueued_messages = 1
  /\ last.event.bridge_id \in DOMAIN Bridges
  /\ Queued(Storage, last.event.lane_id) = 1

\* C4. Final close: when no message is left after pruning, close_bridge
\* removes the Bridge entry and the LaneToBridge entry, purges both lanes and
\* moves the reserve from the held to the free balance of the owner; every
\* lookup is absent afterwards.
FinalClose ==
  \A origin \in Origins, destination \in Destinations, budget \in Budgets :
    LET r == close_bridge(Storage, origin, destination, budget) IN
    (r.res = "Ok" /\ Queued(Storage, Bridges[BridgeIdOf(origin, destination)].lane_id)
                       <= budget) =>
      LET b == BridgeIdOf(origin, destination)
          bridge == Bridges[b]
          owner == bridge.bridge_owner_account
      IN
      /\ b \notin DOMAIN r.st.Bridges
      /\ bridge.lane_id \notin DOMAIN r.st.LaneToBridge
      /\ ~any_state_inbound_lane(r.st, bridge.lane_id).ok
      /\ ~any_state_outbound_lane(r.st, bridge.lane_id).ok
      /\ ~bridge_by_lane_id(r.st, bridge.lane_id).ok
      /\ r.st.held[owner] = held[owner] - bridge.reserve
      /\ r.st.free[owner] = free[owner] + bridge.reserve
      /\ r.event.kind = "BridgePruned"
      /\ r.event.bridge_deposit = Ok(bridge.reserve)

\* C4 witness: a bridge opened with a deposit has just been pruned and its
\* deposit released; neither it nor its lanes are found.
FinalCloseWitness ==
  /\ last.op = "close_bridge"
  /\ last.res = "Ok"
  /\ last.event.kind = "BridgePruned"
  /\ last.event.bridge_deposit = Ok(BridgeDeposit)
  /\ last.event.pruned_messages > 0
  /\ last.event.bridge_id \notin DOMAIN Bridges
  /\ last.event.lane_id \notin DOMAIN OutboundLanes

\* C5. Partial close: when messages remain after pruning, close_bridge returns
\* Ok, the Bridge entry and its LaneToBridge entry stay, the bridge and both
\* lanes are Closed, and reserve, owner, lane_id, locations and all free and
\* held balances are what they were.
PartialClose ==
  \A origin \in Origins, destination \in Destinations, budget \in Budgets :
    ( /\ ResolvesToBridge(origin, destination)
      /\ Bridges[BridgeIdOf(origin, destination)].lane_id \in DOMAIN InboundLanes
      /\ Bridges[BridgeIdOf(origin, destination)].lane_id \in DOMAIN OutboundLanes
      /\ Queued(Storage, Bridges[BridgeIdOf(origin, destination)].lane_id) > budget ) =>
      LET r == close_bridge(Storage, origin, destination, budget)
          b == BridgeIdOf(origin, destination)
          lane_id == Bridges[b].lane_id
      IN
      /\ r.res = "Ok"
      /\ DOMAIN r.st.Bridges = DOMAIN Bridges
      /\ r.st.Bridges[b] = [Bridges[b] EXCEPT !.state = "Closed"]
      /\ r.st.LaneToBridge = LaneToBridge
      /\ r.st.InboundLanes[lane_id].state = "Closed"
      /\ r.st.OutboundLanes[lane_id].state = "Closed"
      /\ r.st.free = free
      /\ r.st.held = held

\* C5 witness: a bridge holding a deposit has been partially closed; it is
\* Closed with messages queued and its deposit is still held.
PartialCloseWitness ==
  /\ last.op = "close_bridge"
  /\ last.event.kind = "ClosingBridge"
  /\ last.event.bridge_id \in DOMAIN Bridges
  /\ LET bridge == Bridges[last.event.bridge_id] IN
       /\ bridge.state = "Closed"
       /\ bridge.reserve = BridgeDeposit
       /\ held[bridge.bridge_owner_account] >= BridgeDeposit
       /\ InboundLanes[bridge.lane_id].state = "Closed"
       /\ Queued(Storage, bridge.lane_id) > 0

\* C6. Audit always passes: do_try_state returns Ok in every state reached
\* from an empty or genesis-seeded registry by open_bridge and close_bridge
\* calls, failing ones included, and message enqueues.
AuditPasses == do_try_state(Storage).ok

\* C6 witness: two bridges, one of them Closed with messages queued, audited
\* right after a call that failed.
AuditPassesWitness ==
  /\ Cardinality(DOMAIN Bridges) = 2
  /\ \E b \in DOMAIN Bridges :
       Bridges[b].state = "Closed" /\ Queued(Storage, Bridges[b].lane_id) > 0
  /\ last.op \in {"open_bridge", "close_bridge"}
  /\ last.res # "Ok"
  /\ do_try_state(Storage) = Ok("()")

\* C7. Forward/reverse bijection: Bridges[b].lane_id = L exactly when
\* LaneToBridge[L] = b; no two bridges share a lane and no LaneToBridge entry
\* points to an absent bridge.
Bijection ==
  /\ \A b \in DOMAIN Bridges :
       /\ Bridges[b].lane_id \in DOMAIN LaneToBridge
       /\ LaneToBridge[Bridges[b].lane_id] = b
  /\ \A lane_id \in DOMAIN LaneToBridge :
       /\ LaneToBridge[lane_id] \in DOMAIN Bridges
       /\ Bridges[LaneToBridge[lane_id]].lane_id = lane_id
  /\ \A b1, b2 \in DOMAIN Bridges :
       Bridges[b1].lane_id = Bridges[b2].lane_id => b1 = b2

\* C7 witness: open_bridge has just added a second bridge, whose lane id was
\* derived from a V3 destination; both maps hold two entries.
BijectionWitness ==
  /\ last.op = "open_bridge"
  /\ last.res = "Ok"
  /\ last.event.lane_id[3] = "V3"
  /\ Cardinality(DOMAIN Bridges) = 2
  /\ Cardinality(DOMAIN LaneToBridge) = 2

OpenPostcondition ==
  \A origin \in Origins, destination \in Destinations :
    LET r == open_bridge(Storage, origin, destination) IN
    r.res = "Ok" =>
      LET locations == bridge_locations_from_origin(origin, destination).val
          b == locations.bridge_id
          lane_id == calculate_lane_id(locations, identify_version(destination)).val
          owner == convert_location(locations.bridge_origin_relative_location).val
      IN
      /\ b \in DOMAIN r.st.Bridges
      /\ r.st.Bridges[b].state = "Opened"
      /\ r.st.Bridges[b].reserve = BridgeDeposit
      /\ r.st.Bridges[b].bridge_owner_account = owner
      /\ r.st.Bridges[b].lane_id = lane_id
      /\ lane_id \in DOMAIN r.st.LaneToBridge
      /\ r.st.LaneToBridge[lane_id] = b
      /\ any_state_inbound_lane(r.st, lane_id) = Ok(NewInboundLane)
      /\ any_state_outbound_lane(r.st, lane_id).ok
      /\ any_state_outbound_lane(r.st, lane_id).val.state = "Opened"
      /\ r.st.free[owner] = free[owner] - BridgeDeposit
      /\ r.st.held[owner] = held[owner] + BridgeDeposit

\* C9 witness: open_bridge has just succeeded for the sibling parachain,
\* whose deposit is now held.
OpenPostconditionWitness ==
  /\ last.op = "open_bridge"
  /\ last.res = "Ok"
  /\ last.event.bridge_deposit = BridgeDeposit
  /\ last.event.bridge_id \in DOMAIN Bridges
  /\ Bridges[last.event.bridge_id].bridge_owner_account = "SiblingAccount"
  /\ Bridges[last.event.bridge_id].state = "Opened"
  /\ held["SiblingAccount"] = BridgeDeposit
  /\ free["SiblingAccount"] = ExistentialDeposit

\* C10. Eventual closure: once a bridge is Closed, if its owner keeps calling
\* close_bridge with a budget of at least 1, a call eventually prunes the
\* bridge: the bridge and its lanes are gone and the call releases the whole
\* reserve to the owner; until then the outbound queue never grows.
EventualClosure ==
  /\ \A b \in BridgeIds :
       (b \in DOMAIN Bridges /\ Bridges[b].state = "Closed")
       ~> ( /\ last.op = "close_bridge"
            /\ last.event.kind = "BridgePruned"
            /\ last.event.bridge_id = b
            /\ b \notin DOMAIN Bridges
            /\ last.event.lane_id \notin DOMAIN InboundLanes
            /\ last.event.lane_id \notin DOMAIN OutboundLanes )
  /\ [][\A b \in DOMAIN Bridges :
          Bridges[b].state = "Closed" =>
            IF b \in DOMAIN Bridges'
            THEN Queued(Storage', Bridges[b].lane_id) <= Queued(Storage, Bridges[b].lane_id)
            ELSE /\ last'.event.kind = "BridgePruned"
                 /\ last'.event.bridge_deposit = Ok(Bridges[b].reserve)
                 /\ held'[Bridges[b].bridge_owner_account] =
                      held[Bridges[b].bridge_owner_account] - Bridges[b].reserve]_vars

\* C10 witness: a close_bridge call has succeeded without emptying the queue;
\* the bridge is Closed, still holds its deposit and waits for further calls.
EventualClosureWitness ==
  /\ last.op = "close_bridge"
  /\ last.res = "Ok"
  /\ last.event.kind = "ClosingBridge"
  /\ last.event.pruned_messages >= 1
  /\ last.event.enqueued_messages >= 1
  /\ Bridges[last.event.bridge_id].state = "Closed"
  /\ Bridges[last.event.bridge_id].reserve = BridgeDeposit

\* ------------------------------------------------------- message delivery
\* The messages pallet receives a delivery confirmation for the oldest queued
\* message of an outbound lane, in whatever state the lane is, and prunes it.
ConfirmDelivery(lane_id) ==
  /\ lane_id \in DOMAIN OutboundLanes
  /\ queued_messages(OutboundLanes[lane_id]) # {}
  /\ OutboundLanes' =
       [OutboundLanes EXCEPT ![lane_id] = remove_oldest_unpruned_message(@)]
  /\ last' = Call("confirm_delivery", "Ok",
                  [ kind |-> "MessagesDelivered", lane_id |-> lane_id,
                    nonce |-> OutboundLanes[lane_id].oldest_unpruned_nonce ])
  /\ UNCHANGED <<Bridges, LaneToBridge, InboundLanes, free, held, release_fails>>

NextWithDelivery ==
  \/ Next
  \/ \E lane_id \in DOMAIN OutboundLanes : ConfirmDelivery(lane_id)

\* The pallet next to a messages pallet that delivers the queued messages.
SpecWithDelivery == Init /\ [][NextWithDelivery]_vars

\* C11. Immediate closure on empty queue: close_bridge on an existing bridge
\* whose outbound queue is empty, Opened or Closed, with any budget (0
\* included), returns Ok and in that one call deletes the bridge, its
\* LaneToBridge entry and both lanes and releases the reserve to the owner.
ImmediateClosure ==
  \A origin \in Origins, destination \in Destinations, budget \in Budgets :
    ( /\ ResolvesToBridge(origin, destination)
      /\ Bridges[BridgeIdOf(origin, destination)].lane_id \in DOMAIN InboundLanes
      /\ Bridges[BridgeIdOf(origin, destination)].lane_id \in DOMAIN OutboundLanes
      /\ Queued(Storage, Bridges[BridgeIdOf(origin, destination)].lane_id) = 0 ) =>
      LET r == close_bridge(Storage, origin, destination, budget)
          b == BridgeIdOf(origin, destination)
          bridge == Bridges[b]
          owner == bridge.bridge_owner_account
      IN
      /\ r.res = "Ok"
      /\ b \notin DOMAIN r.st.Bridges
      /\ bridge.lane_id \notin DOMAIN r.st.LaneToBridge
      /\ bridge.lane_id \notin DOMAIN r.st.InboundLanes
      /\ bridge.lane_id \notin DOMAIN r.st.OutboundLanes
      /\ r.st.held[owner] = held[owner] - bridge.reserve
      /\ r.st.free[owner] = free[owner] + bridge.reserve
      /\ r.event.kind = "BridgePruned"
      /\ r.event.pruned_messages = 0
      /\ r.event.bridge_deposit = Ok(bridge.reserve)

\* C11 witness: a bridge that an earlier close_bridge left Closed holds a
\* deposit and has had its last queued message delivered; a close_bridge with
\* budget 0 prunes it.
ImmediateClosureWitness ==
  /\ last.op = "confirm_delivery"
  /\ \E origin \in BridgeOwnerOrigins, destination \in BridgedDestinations :
       /\ ResolvesToBridge(origin, destination)
       /\ Bridges[BridgeIdOf(origin, destination)].state = "Closed"
       /\ Bridges[BridgeIdOf(origin, destination)].reserve = BridgeDeposit
       /\ Queued(Storage, Bridges[BridgeIdOf(origin, destination)].lane_id) = 0
       /\ close_bridge(Storage, origin, destination, 0).event.kind = "BridgePruned"

\* ----------------------------------------------------- the shared ledger
\* An unrelated path releases one unit of what an account has on hold.
ForeignRelease(who) ==
  /\ held[who] > 0
  /\ held' = [held EXCEPT ![who] = @ - 1]
  /\ free' = [free EXCEPT ![who] = @ + 1]
  /\ last' = Call("foreign_release", "Ok",
                  [kind |-> "Released", who |-> who, amount |-> 1])
  /\ UNCHANGED <<Bridges, LaneToBridge, InboundLanes, OutboundLanes, release_fails>>

\* The ledger starts, or stops, answering releases with an error.
LedgerFault ==
  /\ release_fails' = ~release_fails
  /\ last' = Call("ledger_fault", "Ok", [kind |-> "LedgerFault", fails |-> ~release_fails])
  /\ UNCHANGED <<Bridges, LaneToBridge, InboundLanes, OutboundLanes, free, held>>

\* The calls of the bridge owners, next to the other writers of the ledger.
NextSharedLedger ==
  \/ \E origin \in BridgeOwnerOrigins, destination \in BridgedDestinations :
       OpenBridge(origin, destination)
  \/ \E origin \in BridgeOwnerOrigins, destination \in BridgedDestinations,
          budget \in Budgets :
       CloseBridge(origin, destination, budget)
  \/ \E lane_id \in DOMAIN OutboundLanes : EnqueueMessage(lane_id)
  \/ \E who \in Accounts : ForeignRelease(who)
  \/ LedgerFault

\* The pallet on a ledger that other parties write to and that may fail.
SpecSharedLedger == InitWith({<<>>}, {}, {}) /\ [][NextSharedLedger]_vars

\* C12. Best-effort release never fails the close: a close_bridge that leaves
\* no message queued returns Ok and deletes the bridge, its LaneToBridge
\* entry and both lanes whatever the ledger answers; BridgePruned carries
\* None when the release returned an error and otherwise the amount actually
\* moved from held to free, which is what was still held up to the reserve.
BestEffortRelease ==
  \A origin \in Origins, destination \in Destinations, budget \in Budgets :
    ( /\ ResolvesToBridge(origin, destination)
      /\ Bridges[BridgeIdOf(origin, destination)].lane_id \in DOMAIN InboundLanes
      /\ Bridges[BridgeIdOf(origin, destination)].lane_id \in DOMAIN OutboundLanes
      /\ Queued(Storage, Bridges[BridgeIdOf(origin, destination)].lane_id) <= budget ) =>
      LET r == close_bridge(Storage, origin, destination, budget)
          b == BridgeIdOf(origin, destination)
          bridge == Bridges[b]
          owner == bridge.bridge_owner_account
          actual == Min(bridge.reserve, held[owner])
      IN
      /\ r.res = "Ok"
      /\ r.event.kind = "BridgePruned"
      /\ b \notin DOMAIN r.st.Bridges
      /\ bridge.lane_id \notin DOMAIN r.st.LaneToBridge
      /\ bridge.lane_id \notin DOMAIN r.st.InboundLanes
      /\ bridge.lane_id \notin DOMAIN r.st.OutboundLanes
      /\ IF release_fails
         THEN /\ r.event.bridge_deposit = Err("None")
              /\ r.st.held = held
              /\ r.st.free = free
         ELSE /\ r.event.bridge_deposit = Ok(actual)
              /\ actual <= bridge.reserve
              /\ r.st.held = [held EXCEPT ![owner] = @ - actual]
              /\ r.st.free = [free EXCEPT ![owner] = @ + actual]

\* C12 witness: part of a bridge's deposit was released by an unrelated path,
\* the ledger then failed the release of the final close, and the bridge is
\* pruned all the same with no released amount in its event.
BestEffortReleaseWitness ==
  /\ last.op = "close_bridge"
  /\ last.res = "Ok"
  /\ last.event.kind = "BridgePruned"
  /\ last.event.bridge_deposit = Err("None")
  /\ last.event.bridge_id \notin DOMAIN Bridges
  /\ release_fails
  /\ held["ParentAccount"] = BridgeDeposit - 1
  /\ DOMAIN Bridges = {}

\* Nonces queued on an outbound lane of snapshot s; none once it is purged.
QueuedNonces(s, lane_id) ==
  IF lane_id \in DOMAIN s.OutboundLanes
  THEN queued_messages(s.OutboundLanes[lane_id]) ELSE {}

\* C13. Oldest-first pruning: a close_bridge that prunes k messages from a
\* queue holding the nonces a..b removes exactly a..a+k-1 and leaves exactly
\* a+k..b; over successive steps the oldest queued nonce of a lane never
\* goes back, so nonces are removed in strictly increasing order.
OldestFirstPruning ==
  /\ [](\A origin \in Origins, destination \in Destinations, budget \in Budgets :
          LET r == close_bridge(Storage, origin, destination, budget) IN
          r.res = "Ok" =>
            LET lane_id == Bridges[BridgeIdOf(origin, destination)].lane_id
                a == OutboundLanes[lane_id].oldest_unpruned_nonce
                b == OutboundLanes[lane_id].latest_generated_nonce
                k == r.event.pruned_messages
            IN
            /\ QueuedNonces(r.st, lane_id) = (a + k) .. b
            /\ QueuedNonces(Storage, lane_id) \ QueuedNonces(r.st, lane_id)
                 = a .. (a + k - 1))
  /\ [][\A lane_id \in DOMAIN OutboundLanes \cap DOMAIN OutboundLanes' :
          /\ OutboundLanes'[lane_id].oldest_unpruned_nonce
               >= OutboundLanes[lane_id].oldest_unpruned_nonce
          /\ QueuedNonces(Storage, lane_id) \ QueuedNonces(Storage', lane_id)
               = OutboundLanes[lane_id].oldest_unpruned_nonce
                   .. (OutboundLanes'[lane_id].oldest_unpruned_nonce - 1)]_vars

\* C13 witness: of the queued nonces 1 and 2 a close_bridge with budget 1 has
\* pruned nonce 1; nonce 2 is what the queue holds.
OldestFirstPruningWitness ==
  /\ last.op = "close_bridge"
  /\ last.res = "Ok"
  /\ last.event.kind = "ClosingBridge"
  /\ last.event.pruned_messages = 1
  /\ QueuedNonces(Storage, last.event.lane_id) = {2}

\* ------------------------------------------------------ bare deposit funding
\* Fundings in which the parent's sovereign account holds the bare deposit,
\* or the deposit on top of the existential deposit; the sibling has nothing.
BareDepositBalances ==
  { [a \in Accounts |-> IF a = "ParentAccount" THEN f ELSE 0] :
      f \in {BridgeDeposit, BridgeDeposit + ExistentialDeposit} }

SpecBareDeposit ==
  InitFunded(GenesisConfigs, BareDepositBalances, {}, {}) /\ [][Next]_vars

\* The call resolves to the bridge that the last call, a close_bridge, has
\* just pruned.
ResolvesToPrunedBridge(origin, destination) ==
  /\ last.op = "close_bridge"
  /\ last.res = "Ok"
  /\ last.event.kind = "BridgePruned"
  /\ bridge_locations_from_origin(origin, destination).ok
  /\ BridgeIdOf(origin, destination) = last.event.bridge_id

\* open_bridge succeeds with a new bridge: Opened, reserve BridgeDeposit, new
\* Opened lanes with empty queues, BridgeDeposit newly held on the owner.
OpensAnew(origin, destination) ==
  LET r == open_bridge(Storage, origin, destination)
      locations == bridge_locations_from_origin(origin, destination).val
      b == locations.bridge_id
      lane_id == calculate_lane_id(locations, identify_version(destination)).val
      owner == convert_location(locations.bridge_origin_relative_location).val
  IN
  /\ r.res = "Ok"
  /\ b \notin DOMAIN Bridges
  /\ b \in DOMAIN r.st.Bridges
  /\ r.st.Bridges[b].state = "Opened"
  /\ r.st.Bridges[b].reserve = BridgeDeposit
  /\ r.st.LaneToBridge[lane_id] = b
  /\ r.st.InboundLanes[lane_id] = NewInboundLane
  /\ r.st.OutboundLanes[lane_id] = NewOutboundLane
  /\ queued_messages(r.st.OutboundLanes[lane_id]) = {}
  /\ r.st.held[owner] = held[owner] + BridgeDeposit
  /\ r.st.free[owner] = free[owner] - BridgeDeposit

OwnerOfCall(origin, destination) ==
  convert_location(
    bridge_locations_from_origin(origin, destination).val.bridge_origin_relative_location).val

\* C14 as stated: after a bridge has been pruned, open_bridge for the same
\* origin and destination succeeds with a new bridge whenever the owner's
\* free balance is at least BridgeDeposit.
ReopenWithBareDeposit ==
  \A origin \in Origins, destination \in Destinations :
    ( /\ ResolvesToPrunedBridge(origin, destination)
      /\ free[OwnerOfCall(origin, destination)] >= BridgeDeposit )
    => OpensAnew(origin, destination)

\* C14 amended. After a bridge has been pruned, open_bridge for the same
\* origin and destination succeeds with a new bridge (Opened, reserve
\* BridgeDeposit, new Opened lanes with empty queues, a new hold of
\* BridgeDeposit) whenever the owner's free balance is at least BridgeDeposit
\* plus the existential deposit, which is what the hold needs.
ReopenAfterClose ==
  \A origin \in Origins, destination \in Destinations :
    ( /\ ResolvesToPrunedBridge(origin, destination)
      /\ free[OwnerOfCall(origin, destination)] >= BridgeDeposit + ExistentialDeposit )
    => OpensAnew(origin, destination)

\* C14 witness: a bridge that held a deposit has just been pruned, the owner
\* has its deposit back on top of the existential deposit, and open_bridge
\* for the same pair opens it again.
ReopenAfterCloseWitness ==
  /\ last.op = "close_bridge"
  /\ last.event.kind = "BridgePruned"
  /\ last.event.bridge_deposit = Ok(BridgeDeposit)
  /\ \E origin \in Origins, destination \in Destinations :
       /\ ResolvesToPrunedBridge(origin, destination)
       /\ free[OwnerOfCall(origin, destination)] = BridgeDeposit + ExistentialDeposit
       /\ open_bridge(Storage, origin, destination).res = "Ok"

\* A call from this origin to this destination names the destination of
\* bridge b but comes from another relative location than the one b was
\* opened from.
ForeignOriginCall(b, origin, destination) ==
  /\ bridge_locations_from_origin(origin, destination).ok
  /\ try_into_latest(destination).val
       = Bridges[b].bridge_destination_universal_location.location
  /\ ensure_origin(origin).val # Bridges[b].bridge_origin_relative_location.location

\* C15. Only the owning origin can close: a close_bridge from an origin whose
\* relative location is not the one bridge b was opened from, for b's
\* destination, derives another bridge_id; it leaves b's record, its
\* LaneToBridge entry, its lanes with their queued messages and the owner's
\* held reserve as they are, and returns UnknownBridge unless that origin has
\* a bridge of its own to the destination.
OnlyOwnerCloses ==
  \A b \in DOMAIN Bridges :
    \A origin \in Origins, destination \in Destinations, budget \in Budgets :
      ForeignOriginCall(b, origin, destination) =>
        LET r == close_bridge(Storage, origin, destination, budget)
            other == BridgeIdOf(origin, destination)
            lane_id == Bridges[b].lane_id
            owner == Bridges[b].bridge_owner_account
        IN
        /\ other # b
        /\ b \in DOMAIN r.st.Bridges
        /\ r.st.Bridges[b] = Bridges[b]
        /\ lane_id \in DOMAIN r.st.LaneToBridge
        /\ r.st.LaneToBridge[lane_id] = b
        /\ lane_id \in DOMAIN r.st.InboundLanes
        /\ r.st.InboundLanes[lane_id] = InboundLanes[lane_id]
        /\ lane_id \in DOMAIN r.st.OutboundLanes
        /\ r.st.OutboundLanes[lane_id] = OutboundLanes[lane_id]
        /\ r.st.held[owner] = held[owner]
        /\ r.st.free[owner] = free[owner]
        /\ IF other \in DOMAIN Bridges THEN r.res = "Ok" ELSE r.res = "UnknownBridge"

\* C15 witness: the parent's bridge is the only one, holds a deposit and has
\* messages queued; a close_bridge of the sibling for the same destination
\* has just been answered with UnknownBridge.
OnlyOwnerClosesWitness ==
  /\ last.op = "close_bridge"
  /\ last.res = "UnknownBridge"
  /\ DOMAIN Bridges = {BridgeIdOf("parent_relay_chain_origin", into_versioned(bridged_asset_hub_universal_location))}
  /\ \A b \in DOMAIN Bridges :
       /\ Bridges[b].reserve = BridgeDeposit
       /\ Queued(Storage, Bridges[b].lane_id) > 0
       /\ ForeignOriginCall(b, "sibling_parachain_origin",
                            into_versioned(bridged_asset_hub_universal_location))
  /\ close_bridge(Storage, "sibling_parachain_origin",
                  into_versioned(bridged_asset_hub_universal_location), MaxBudget).res
       = "UnknownBridge"

\* C16. Close of an unknown bridge: close_bridge for a pair that resolves to
\* a bridge_id without a Bridge record returns UnknownBridge, deposits no
\* event and leaves the whole storage as it is; so does a close_bridge for
\* the pair of a bridge that the call before has pruned, and whatever is
\* still held on its owner stays held.
CloseUnknownBridge ==
  \A origin \in Origins, destination \in Destinations, budget \in Budgets :
    LET r == close_bridge(Storage, origin, destination, budget) IN
    /\ ( /\ bridge_locations_from_origin(origin, destination).ok
         /\ BridgeIdOf(origin, destination) \notin DOMAIN Bridges )
       => /\ r.res = "UnknownBridge"
          /\ r.event = NoEvent
          /\ r.st = Storage
    /\ ResolvesToPrunedBridge(origin, destination)
       => /\ r.res = "UnknownBridge"
          /\ r.st.held = held
          /\ r.st.free = free

\* C16 witness: the parent's bridge has just been pruned while the ledger
\* refused the release, so its deposit is still held; a second close_bridge
\* for the pair is answered with UnknownBridge.
CloseUnknownBridgeWitness ==
  /\ ResolvesToPrunedBridge("parent_relay_chain_origin",
                            into_versioned(bridged_asset_hub_universal_location))
  /\ last.event.bridge_deposit = Err("None")
  /\ held["ParentAccount"] = BridgeDeposit
  /\ close_bridge(Storage, "parent_relay_chain_origin",
                  into_versioned(bridged_asset_hub_universal_location), MaxBudget).res
       = "UnknownBridge"

\* ------------------------------------------------------ lanes purged outside
\* The lanes manager purges a lane on behalf of somebody else than the pallet.
PurgeInboundLane(lane_id) ==
  /\ lane_id \in DOMAIN InboundLanes
  /\ InboundLanes' = purge_inbound(Storage, lane_id).InboundLanes
  /\ last' = Call("purge_inbound_lane", "Ok", [kind |-> "LanePurged", lane_id |-> lane_id])
  /\ UNCHANGED <<Bridges, LaneToBridge, OutboundLanes, free, held, release_fails>>

PurgeOutboundLane(lane_id) ==
  /\ lane_id \in DOMAIN OutboundLanes
  /\ OutboundLanes' = purge_outbound(Storage, lane_id).OutboundLanes
  /\ last' = Call("purge_outbound_lane", "Ok", [kind |-> "LanePurged", lane_id |-> lane_id])
  /\ UNCHANGED <<Bridges, LaneToBridge, InboundLanes, free, held, release_fails>>

\* The calls of the bridge owners, next to a lanes manager that purges lanes.
NextLanesPurged ==
  \/ \E origin \in BridgeOwnerOrigins, destination \in BridgedDestinations :
       OpenBridge(origin, destination)
  \/ \E origin \in BridgeOwnerOrigins, destination \in BridgedDestinations,
          budget \in Budgets :
       CloseBridge(origin, destination, budget)
  \/ \E lane_id \in DOMAIN OutboundLanes : EnqueueMessage(lane_id)
  \/ \E lane_id \in DOMAIN InboundLanes : PurgeInboundLane(lane_id)
  \/ \E lane_id \in DOMAIN OutboundLanes : PurgeOutboundLane(lane_id)

SpecLanesPurged == Init /\ [][NextLanesPurged]_vars

\* C17. Close with a missing lane: when the Bridge record exists and its
\* inbound lane is missing, close_bridge returns
\* LanesManager(UnknownInboundLane); when the inbound lane exists and the
\* outbound lane is missing, LanesManager(UnknownOutboundLane); either way
\* the whole storage is unchanged, the state field of the bridge and the
\* outbound queue included.
CloseWithMissingLane ==
  \A origin \in Origins, destination \in Destinations, budget \in Budgets :
    ResolvesToBridge(origin, destination) =>
      LET r == close_bridge(Storage, origin, destination, budget)
          b == BridgeIdOf(origin, destination)
          lane_id == Bridges[b].lane_id
      IN
      /\ lane_id \notin DOMAIN InboundLanes
         => /\ r.res = "LanesManager(UnknownInboundLane)"
            /\ r.event = NoEvent
            /\ r.st = Storage
            /\ r.st.Bridges[b].state = Bridges[b].state
      /\ (lane_id \in DOMAIN InboundLanes /\ lane_id \notin DOMAIN OutboundLanes)
         => /\ r.res = "LanesManager(UnknownOutboundLane)"
            /\ r.event = NoEvent
            /\ r.st = Storage
            /\ r.st.Bridges[b].state = Bridges[b].state

\* C17 witness: an Opened bridge holding a deposit has lost its inbound lane
\* while messages are queued on its outbound lane; close_bridge has just
\* been refused with UnknownInboundLane and the bridge is Opened still.
CloseWithMissingLaneWitness ==
  /\ last.op = "close_bridge"
  /\ last.res = "LanesManager(UnknownInboundLane)"
  /\ \E b \in DOMAIN Bridges :
       /\ Bridges[b].state = "Opened"
       /\ Bridges[b].reserve = BridgeDeposit
       /\ Bridges[b].lane_id \notin DOMAIN InboundLanes
       /\ Bridges[b].lane_id \in DOMAIN OutboundLanes
       /\ Queued(Storage, Bridges[b].lane_id) > 0

\* C18. Insufficient deposit funds: open_bridge from an allowed origin, with
\* locations, lane id and sovereign account derived, whose account cannot
\* have BridgeDeposit held returns FailedToReserveBridgeDeposit; no Bridge
\* record, LaneToBridge entry, lane or hold is created.
InsufficientDepositFunds ==
  \A origin \in Origins, destination \in Destinations :
    LET locs == bridge_locations_from_origin(origin, destination) IN
    ( /\ locs.ok
      /\ calculate_lane_id(locs.val, identify_version(destination)).ok
      /\ convert_location(locs.val.bridge_origin_relative_location).ok
      /\ ~hold(Storage, OwnerOfCall(origin, destination), BridgeDeposit).ok ) =>
      LET r == open_bridge(Storage, origin, destination) IN
      /\ r.res = "FailedToReserveBridgeDeposit"
      /\ r.event = NoEvent
      /\ r.st.Bridges = Bridges
      /\ r.st.LaneToBridge = LaneToBridge
      /\ r.st.InboundLanes = InboundLanes
      /\ r.st.OutboundLanes = OutboundLanes
      /\ r.st.held = held
      /\ r.st.free = free

\* C18 witness: the parent, funded with the bare deposit and without any
\* bridge, has just had open_bridge refused; there is no bridge, lane or hold.
InsufficientDepositFundsWitness ==
  /\ last.op = "open_bridge"
  /\ last.res = "FailedToReserveBridgeDeposit"
  /\ free["ParentAccount"] = BridgeDeposit
  /\ held["ParentAccount"] = 0
  /\ DOMAIN Bridges = {}
  /\ DOMAIN LaneToBridge = {}
  /\ DOMAIN InboundLanes = {}
  /\ DOMAIN OutboundLanes = {}

\* ------------------------------------------------------- audited registries
\* The registries the audit is exercised on: one Bridge record written under
\* a key, with or without a LaneToBridge entry for its lane.
bridge_id_mismatch == BridgeId_new(<<>>, <<>>)
sibling_bridge_id ==
  BridgeId_new(<<ThisNetwork, "Sibling">>, bridged_asset_hub_universal_location)
default_lane_id == <<<<>>, <<>>, LatestXcmVersion>>

AuditedVersions == {"V3", "V4"}
AuditedBridges ==
  { [ bridge_origin_relative_location |->
        Versioned(v1, [relative |-> TRUE, loc |-> "Sibling"]),
      bridge_origin_universal_location |-> Versioned(v2, <<ThisNetwork, "Sibling">>),
      bridge_destination_universal_location |->
        Versioned(v3, bridged_asset_hub_universal_location),
      state |-> state,
      bridge_owner_account |-> owner,
      reserve |-> 0,
      lane_id |-> default_lane_id ] :
      v1 \in AuditedVersions, v2 \in AuditedVersions, v3 \in AuditedVersions,
      state \in {"Opened", "Closed"}, owner \in Accounts }

\* test_bridge_state: the record and the mapping are written as given and the
\* audit is run; mapped is the bridge_id the lane is mapped to, if any.
TestBridgeState(id, bridge, mapped) ==
  /\ DOMAIN Bridges = {}
  /\ Bridges' = Put(Bridges, id, bridge)
  /\ LaneToBridge' =
       IF mapped.ok THEN Put(LaneToBridge, bridge.lane_id, mapped.val) ELSE LaneToBridge
  /\ LET audit == do_try_state([Storage EXCEPT !.Bridges = Bridges',
                                               !.LaneToBridge = LaneToBridge'])
     IN last' = Call("do_try_state", IF audit.ok THEN "Ok" ELSE audit.err, NoEvent)
  /\ UNCHANGED <<InboundLanes, OutboundLanes, free, held, release_fails>>

\* cleanup: both maps are emptied again.
Cleanup ==
  /\ DOMAIN Bridges # {}
  /\ Bridges' = EmptyMap
  /\ LaneToBridge' = EmptyMap
  /\ last' = Call("cleanup", "Ok", NoEvent)
  /\ UNCHANGED <<InboundLanes, OutboundLanes, free, held, release_fails>>

NextAudit ==
  \/ \E id \in {sibling_bridge_id, bridge_id_mismatch}, bridge \in AuditedBridges,
          mapped \in {Err("None"), Ok(sibling_bridge_id), Ok(bridge_id_mismatch)} :
       TestBridgeState(id, bridge, mapped)
  \/ Cleanup

SpecAudit == InitWith({<<>>}, {}, {}) /\ [][NextAudit]_vars

\* C19. Audit diagnostics: on a registry holding one bridge, do_try_state
\* reports the LaneToBridge inconsistency when LaneToBridge[bridge.lane_id] is
\* not the bridge's key; else a conversion error when a stored location is
\* not in the latest XCM version; else the bridge_id error when the key is
\* not the id recomputed from the stored universal locations; else the owner
\* error when owner_account is not the account derived from the stored
\* relative location; and Ok when no check fails.
AuditDiagnostics ==
  \A b \in DOMAIN Bridges :
    DOMAIN Bridges = {b} =>
      LET bridge == Bridges[b]
          audit == do_try_state(Storage)
          reverse_index_bad ==
            ~(bridge.lane_id \in DOMAIN LaneToBridge /\ LaneToBridge[bridge.lane_id] = b)
          locations_bad ==
            \/ bridge.bridge_origin_relative_location.version # LatestXcmVersion
            \/ bridge.bridge_origin_universal_location.version # LatestXcmVersion
            \/ bridge.bridge_destination_universal_location.version # LatestXcmVersion
          bridge_id_bad ==
            b # BridgeId_new(bridge.bridge_origin_universal_location.location,
                             bridge.bridge_destination_universal_location.location)
          owner_bad ==
            convert_location(bridge.bridge_origin_relative_location.location)
              # Ok(bridge.bridge_owner_account)
      IN
      /\ last.op = "do_try_state" => last.res = (IF audit.ok THEN "Ok" ELSE audit.err)
      /\ IF reverse_index_bad THEN audit = Err(LaneToBridgeInconsistency)
         ELSE IF locations_bad
           THEN /\ ~audit.ok
                /\ audit.err \in { RelativeLocationNotLatest, OriginLocationNotLatest,
                                    DestinationLocationNotLatest }
         ELSE IF bridge_id_bad THEN audit = Err(BridgeIdMismatch)
         ELSE IF owner_bad THEN audit = Err(OwnerAccountMismatch)
         ELSE audit.ok

\* C19 witness: the record sits under a key that is not the recomputed id and
\* names an owner that is not the derived account, the reverse index agrees
\* with the key; the audit has reported the bridge_id, not the owner.
AuditDiagnosticsWitness ==
  /\ last.op = "do_try_state"
  /\ last.res = BridgeIdMismatch
  /\ DOMAIN Bridges = {bridge_id_mismatch}
  /\ Bridges[bridge_id_mismatch].bridge_owner_account = "ParentAccount"
  /\ LaneToBridge[default_lane_id] = bridge_id_mismatch

\* C20. Genesis seeding bypasses the deposit: right after the genesis build
\* every bridge is Opened with reserve zero and nothing is held on any
\* account; a close_bridge that prunes a bridge with reserve zero, which only
\* the genesis build creates, releases nothing and leaves every free and held
\* balance as it was.
GenesisBypassesDeposit ==
  /\ last = GenesisCall =>
       /\ \A b \in DOMAIN Bridges :
            Bridges[b].state = "Opened" /\ Bridges[b].reserve = 0
       /\ \A a \in Accounts : held[a] = 0
       /\ free \in InitialBalances
  /\ \A origin \in Origins, destination \in Destinations, budget \in Budgets :
       ( /\ ResolvesToBridge(origin, destination)
         /\ Bridges[BridgeIdOf(origin, destination)].reserve = 0 ) =>
         LET r == close_bridge(Storage, origin, destination, budget) IN
         /\ r.res = "Ok"
         /\ r.st.free = free
         /\ r.st.held = held
         /\ r.event.kind = "BridgePruned" => r.event.bridge_deposit = Ok(0)

\* C20 witness: the bridge that the genesis build seeded for the unfunded
\* sibling has had its queued messages pruned and is deleted; no deposit came
\* back and the sibling's balances are what they were at genesis.
GenesisBypassesDepositWitness ==
  /\ last.op = "close_bridge"
  /\ last.event.kind = "BridgePruned"
  /\ last.event.bridge_deposit = Ok(0)
  /\ last.event.pruned_messages > 0
  /\ last.event.bridge_id =
       BridgeIdOf("sibling_parachain_origin",
                  into_versioned(bridged_asset_hub_universal_location))
  /\ free["SiblingAccount"] = 0
  /\ held["SiblingAccount"] = 0

\* C21 as stated. Genesis seeding does not open lanes: right after a genesis
\* build with a non-empty opened_bridges list the Bridge records and their
\* LaneToBridge entries are there, and the lane store holds neither the
\* inbound nor the outbound lane of any of these bridges.
GenesisOpensNoLanes ==
  (last = GenesisCall /\ DOMAIN Bridges # {}) =>
    \A b \in DOMAIN Bridges :
      /\ Bridges[b].lane_id \in DOMAIN LaneToBridge
      /\ LaneToBridge[Bridges[b].lane_id] = b
      /\ Bridges[b].lane_id \notin DOMAIN InboundLanes
      /\ Bridges[b].lane_id \notin DOMAIN OutboundLanes

\* The results of calls successive close_bridge calls with one origin,
\* destination and budget, each made on the storage the call before left.
RECURSIVE CloseCalls(_, _, _, _, _)
CloseCalls(s, origin, destination, budget, calls) ==
  IF calls = 0 THEN <<>>
  ELSE LET r == close_bridge(s, origin, destination, budget) IN
    <<r>> \o CloseCalls(r.st, origin, destination, budget, calls - 1)

Max(a, b) == IF a >= b THEN a ELSE b
CeilDiv(n, d) == (n + d - 1) \div d

RecordImmutable ==
  [][\A b \in DOMAIN Bridges \cap DOMAIN Bridges' :
       /\ Bridges'[b].bridge_owner_account = Bridges[b].bridge_owner_account
       /\ Bridges'[b].reserve = Bridges[b].reserve
       /\ Bridges'[b].lane_id = Bridges[b].lane_id
       /\ Bridges'[b].bridge_origin_relative_location
            = Bridges[b].bridge_origin_relative_location
       /\ Bridges'[b].bridge_origin_universal_location
            = Bridges[b].bridge_origin_universal_location
       /\ Bridges'[b].bridge_destination_universal_location
            = Bridges[b].bridge_destination_universal_location
       /\ Bridges[b].state = "Closed" => Bridges'[b].state = "Closed"
       /\ Bridges'[b] # Bridges[b] =>
            /\ Bridges[b].state = "Opened"
            /\ Bridges'[b] = [Bridges[b] EXCEPT !.state = "Closed"]
            /\ last'.op = "close_bridge"]_vars

\* C23 witness: a bridge opened by a call, holding its deposit, has just seen
\* a close_bridge that pruned nothing and left it in place: it is Closed and
\* its record is otherwise as open_bridge wrote it.
RecordImmutableWitness ==
  /\ last.op = "close_bridge"
  /\ last.res = "Ok"
  /\ last.event.kind = "ClosingBridge"
  /\ last.event.pruned_messages = 0
  /\ last.event.bridge_id \in DOMAIN Bridges
  /\ \E origin \in BridgeOwnerOrigins, destination \in BridgedDestinations :
       LET locations == bridge_locations_from_origin(origin, destination).val IN
       /\ locations.bridge_id = last.event.bridge_id
       /\ Bridges[last.event.bridge_id] =
            [NewBridge(locations, OwnerOfCall(origin, destination), BridgeDeposit,
                       last.event.lane_id) EXCEPT !.state = "Closed"]

\* The storage s with bridge b and both its lanes in the Opened state.
WithBridgeOpened(s, b) ==
  [s EXCEPT !.Bridges[b].state = "Opened",
            !.InboundLanes[s.Bridges[b].lane_id].state = "Opened",
            !.OutboundLanes[s.Bridges[b].lane_id].state = "Opened"]

\* C24. Close is repeatable on a Closed bridge: close_bridge on a bridge that
\* is Closed already returns Ok, with the storage and the event it would
\* leave were the bridge and its lanes Opened; no close_bridge call returns
\* BridgeAlreadyClosed.
CloseRepeatable ==
  \A origin \in Origins, destination \in Destinations, budget \in Budgets :
    LET r == close_bridge(Storage, origin, destination, budget) IN
    /\ r.res # "BridgeAlreadyClosed"
    /\ ( /\ ResolvesToBridge(origin, destination)
         /\ Bridges[BridgeIdOf(origin, destination)].state = "Closed" ) =>
         LET b == BridgeIdOf(origin, destination)
             opened == close_bridge(WithBridgeOpened(Storage, b), origin, destination, budget)
             N == Queued(Storage, Bridges[b].lane_id)
         IN
         /\ r.res = "Ok"
         /\ r.event.pruned_messages = Min(budget, N)
         /\ r.event.kind = IF N > budget THEN "ClosingBridge" ELSE "BridgePruned"
         /\ r = opened

\* C24 witness: a close_bridge has pruned one of two messages and left the
\* bridge Closed; a further close_bridge on it, here with budget 0, is
\* answered Ok with ClosingBridge.
CloseRepeatableWitness ==
  /\ last.op = "close_bridge"
  /\ last.res = "Ok"
  /\ last.event.kind = "ClosingBridge"
  /\ last.event.pruned_messages = 1
  /\ OutboundLanes[last.event.lane_id].oldest_unpruned_nonce = 2
  /\ OutboundLanes[last.event.lane_id].latest_generated_nonce = 2
  /\ Bridges[last.event.bridge_id].state = "Closed"
  /\ \E origin \in BridgeOwnerOrigins, destination \in BridgedDestinations :
       /\ BridgeIdOf(origin, destination) = last.event.bridge_id
       /\ close_bridge(Storage, origin, destination, 0).res = "Ok"
       /\ close_bridge(Storage, origin, destination, 0).event.kind = "ClosingBridge"

ClosingBridgeAccounting ==
  \A origin \in Origins, destination \in Destinations, budget \in Budgets :
    LET r == close_bridge(Storage, origin, destination, budget) IN
    r.res = "Ok" =>
      LET lane_id == Bridges[BridgeIdOf(origin, destination)].lane_id
          before == Queued(Storage, lane_id)
      IN
      /\ r.event.kind \in {"ClosingBridge", "BridgePruned"}
      /\ r.event.kind = "ClosingBridge" =>
           /\ r.event.pruned_messages = budget
           /\ r.event.enqueued_messages >= 1
           /\ r.event.enqueued_messages = Queued(r.st, lane_id)
           /\ r.event.pruned_messages + r.event.enqueued_messages = before
      /\ r.event.kind = "BridgePruned" =>
           /\ r.event.pruned_messages = before
           /\ r.event.pruned_messages <= budget

\* C26 witness: close_bridge with budget 1 on a queue of two has deposited
\* ClosingBridge with one message pruned and one still enqueued, which is
\* what the outbound queue now holds.
ClosingBridgeAccountingWitness ==
  /\ last.op = "close_bridge"
  /\ last.event.kind = "ClosingBridge"
  /\ last.event.pruned_messages = 1
  /\ last.event.enqueued_messages = 1
  /\ last.event.lane_id \in DOMAIN OutboundLanes
  /\ OutboundLanes[last.event.lane_id].latest_generated_nonce = 2
  /\ saturating_len(queued_messages(OutboundLanes[last.event.lane_id]))
       = last.event.enqueued_messages

\* ------------------------------------------------------- pre-existing lanes
\* A chain after any genesis build that succeeds while the messages pallet
\* has been given lanes of its own: with or without genesis bridges, with or
\* without a foreign inbound or outbound lane.
InitPreexistingLanes ==
  \E inbound \in SUBSET ForeignLanes, outbound \in SUBSET ForeignLanes :
    InitWith(GenesisConfigs, inbound, outbound)

\* The two dispatchables, called by any origin for any destination.
NextDispatch ==
  \/ \E origin \in Origins, destination \in Destinations :
       OpenBridge(origin, destination)
  \/ \E origin \in Origins, destination \in Destinations, budget \in Budgets :
       CloseBridge(origin, destination, budget)

SpecPreexistingLanes == InitPreexistingLanes /\ [][NextDispatch]_vars

BridgeLocationsErrors ==
  { "BridgeLocations(InvalidBridgeOrigin)", "BridgeLocations(DestinationIsLocal)",
    "BridgeLocations(UnreachableDestination)" }

\* The failure conditions of a call, each stated on the arguments and the
\* storage alone, as far as the values it speaks of can be derived.
BadOrigin(origin) == ~ensure_origin(origin).ok
UnsupportedVersion(destination) == ~try_into_latest(destination).ok
InvalidLocations(origin, destination) ==
  \/ ~ensure_origin(origin).val.relative
  \/ destination.location[1] = ThisNetwork
  \/ destination.location[1] # BridgedNetwork
NoOriginAccount(origin) == ~convert_location(ensure_origin(origin).val).ok
CannotReserve(origin) ==
  ~hold(Storage, convert_location(ensure_origin(origin).val).val, BridgeDeposit).ok
LaneIdOfCall(origin, destination) ==
  calculate_lane_id(bridge_locations_from_origin(origin, destination).val,
                    identify_version(destination)).val
AlreadyExists(origin, destination) ==
  \/ BridgeIdOfCall(origin, destination) \in DOMAIN Bridges
  \/ LaneIdOfCall(origin, destination) \in DOMAIN LaneToBridge
InboundLaneExists(origin, destination) ==
  LaneIdOfCall(origin, destination) \in DOMAIN InboundLanes
OutboundLaneExists(origin, destination) ==
  LaneIdOfCall(origin, destination) \in DOMAIN OutboundLanes

\* C27. Error precedence: of the failure conditions that hold for an
\* open_bridge call, the one that comes first in the order BadOrigin,
\* UnsupportedXcmVersion, BridgeLocations(..), InvalidBridgeOriginAccount,
\* FailedToReserveBridgeDeposit, BridgeAlreadyExists,
\* LanesManager(InboundLaneAlreadyExists), LanesManager(OutboundLaneAlreadyExists)
\* decides the error, and the call succeeds when none holds; for close_bridge
\* BadOrigin, UnsupportedXcmVersion and BridgeLocations(..) come before
\* UnknownBridge.
ErrorPrecedence ==
  \A origin \in Origins, destination \in Destinations :
    LET opened == open_bridge(Storage, origin, destination).res IN
    /\ IF BadOrigin(origin) THEN opened = "BadOrigin"
       ELSE IF UnsupportedVersion(destination) THEN opened = "UnsupportedXcmVersion"
       ELSE IF InvalidLocations(origin, destination) THEN opened \in BridgeLocationsErrors
       ELSE IF NoOriginAccount(origin) THEN opened = "InvalidBridgeOriginAccount"
       ELSE IF CannotReserve(origin) THEN opened = "FailedToReserveBridgeDeposit"
       ELSE IF AlreadyExists(origin, destination) THEN opened = "BridgeAlreadyExists"
       ELSE IF InboundLaneExists(origin, destination)
         THEN opened = "LanesManager(InboundLaneAlreadyExists)"
       ELSE IF OutboundLaneExists(origin, destination)
         THEN opened = "LanesManager(OutboundLaneAlreadyExists)"
       ELSE opened = "Ok"
    /\ \A budget \in Budgets :
         LET closed == close_bridge(Storage, origin, destination, budget).res IN
         IF BadOrigin(origin) THEN closed = "BadOrigin"
         ELSE IF UnsupportedVersion(destination) THEN closed = "UnsupportedXcmVersion"
         ELSE IF InvalidLocations(origin, destination) THEN closed \in BridgeLocationsErrors
         ELSE IF BridgeIdOfCall(origin, destination) \notin DOMAIN Bridges
           THEN closed = "UnknownBridge"
         ELSE closed \notin {"BadOrigin", "UnsupportedXcmVersion", "UnknownBridge"}
                            \cup BridgeLocationsErrors

\* C27 witness: open_bridge has just been refused with BridgeAlreadyExists for
\* a pair whose bridge exists while the inbound and the outbound lane of the
\* call's lane_id exist as well, and the same state refuses a disallowed
\* origin presenting an unsupported destination with BadOrigin.
ErrorPrecedenceWitness ==
  /\ last.op = "open_bridge"
  /\ last.res = "BridgeAlreadyExists"
  /\ \E origin \in Origins, destination \in Destinations :
       /\ ~BadOrigin(origin)
       /\ ~UnsupportedVersion(destination)
       /\ ~InvalidLocations(origin, destination)
       /\ ~NoOriginAccount(origin)
       /\ ~CannotReserve(origin)
       /\ AlreadyExists(origin, destination)
       /\ InboundLaneExists(origin, destination)
       /\ OutboundLaneExists(origin, destination)
       /\ LaneIdOfCall(origin, destination) \notin DOMAIN LaneToBridge
       /\ open_bridge(Storage, origin, destination).res = "BridgeAlreadyExists"
  /\ \E destination \in Destinations :
       /\ UnsupportedVersion(destination)
       /\ open_bridge(Storage, "disallowed_origin", destination).res = "BadOrigin"

\* ------------------------------------------------------ stale reverse index
\* The lane ids the calls of the bridge owners derive.
OwnerLaneIds ==
  {LaneIdOfCall(origin, d) : origin \in BridgeOwnerOrigins, d \in BridgedDestinations}

\* LaneToBridge::insert made on the storage directly: an entry for a lane
\* that no open_bridge call has registered.
InsertLaneToBridge(lane_id, bridge_id) ==
  /\ lane_id \notin DOMAIN LaneToBridge
  /\ LaneToBridge' = Put(LaneToBridge, lane_id, bridge_id)
  /\ last' = Call("insert_lane_to_bridge", "Ok", NoEvent)
  /\ UNCHANGED <<Bridges, InboundLanes, OutboundLanes, free, held, release_fails>>

\* LaneToBridge::remove made on the storage directly, of such an entry.
RemoveLaneToBridge(lane_id) ==
  /\ lane_id \in DOMAIN LaneToBridge
  /\ \A b \in DOMAIN Bridges : Bridges[b].lane_id # lane_id
  /\ LaneToBridge' = Remove(LaneToBridge, lane_id)
  /\ last' = Call("remove_lane_to_bridge", "Ok", NoEvent)
  /\ UNCHANGED <<Bridges, InboundLanes, OutboundLanes, free, held, release_fails>>

\* The calls of the bridge owners on a registry whose reverse index is also
\* written directly.
NextStaleReverseIndex ==
  \/ \E origin \in BridgeOwnerOrigins, destination \in BridgedDestinations :
       OpenBridge(origin, destination)
  \/ \E origin \in BridgeOwnerOrigins, destination \in BridgedDestinations,
          budget \in Budgets :
       CloseBridge(origin, destination, budget)
  \/ \E lane_id \in OwnerLaneIds, bridge_id \in BridgeIds :
       InsertLaneToBridge(lane_id, bridge_id)
  \/ \E lane_id \in DOMAIN LaneToBridge : RemoveLaneToBridge(lane_id)

SpecStaleReverseIndex == InitWith({<<>>}, {}, {}) /\ [][NextStaleReverseIndex]_vars

\* C28. Reverse-index conflict: an open_bridge that gets as far as the
\* reverse index (locations, lane id and account derived, deposit held) while
\* LaneToBridge holds the derived lane_id and Bridges has no entry for the
\* derived bridge_id returns BridgeAlreadyExists; the Bridge record it wrote
\* just before the check and the hold it placed are both gone when it
\* returns, and so is every other write.
ReverseIndexConflict ==
  \A origin \in Origins, destination \in Destinations :
    ( /\ ~BadOrigin(origin)
      /\ ~UnsupportedVersion(destination)
      /\ ~InvalidLocations(origin, destination)
      /\ ~NoOriginAccount(origin)
      /\ ~CannotReserve(origin)
      /\ BridgeIdOfCall(origin, destination) \notin DOMAIN Bridges
      /\ LaneIdOfCall(origin, destination) \in DOMAIN LaneToBridge ) =>
      LET r == open_bridge(Storage, origin, destination)
          at_return == open_bridge_body(Storage, origin, destination).st
          b == BridgeIdOfCall(origin, destination)
          owner == OwnerOfCall(origin, destination)
      IN
      /\ r.res = "BridgeAlreadyExists"
      /\ r.event = NoEvent
      /\ b \in DOMAIN at_return.Bridges
      /\ at_return.held[owner] = held[owner] + BridgeDeposit
      /\ b \notin DOMAIN r.st.Bridges
      /\ r.st.held = held
      /\ r.st.free = free
      /\ r.st = Storage

\* C28 witness: LaneToBridge holds the lane of the parent's bridge and Bridges
\* is empty; the parent, who can pay the deposit, has just had open_bridge
\* refused with BridgeAlreadyExists, and no record or hold is left.
ReverseIndexConflictWitness ==
  /\ last.op = "open_bridge"
  /\ last.res = "BridgeAlreadyExists"
  /\ DOMAIN Bridges = {}
  /\ held["ParentAccount"] = 0
  /\ LaneIdOfCall("parent_relay_chain_origin",
                  into_versioned(bridged_asset_hub_universal_location))
       \in DOMAIN LaneToBridge
  /\ ~CannotReserve("parent_relay_chain_origin")

\* The sum of the reserve fields of the records ids of bridges.
RECURSIVE SumOfReserves(_, _)
SumOfReserves(bridges, ids) ==
  IF ids = {} THEN 0
  ELSE LET b == CHOOSE x \in ids : TRUE IN
    bridges[b].reserve + SumOfReserves(bridges, ids \ {b})

\* What the Bridge records say is reserved on an account.
ReservedOn(account) ==
  SumOfReserves(Bridges, {b \in DOMAIN Bridges : Bridges[b].bridge_owner_account = account})

\* C29. Reserve conservation: with the pallet as the only writer of the
\* ledger, in every state reached from the genesis build by open_bridge and
\* close_bridge calls the balance held on an account is the sum of the
\* reserve fields of the Bridge records it owns, and no step changes the sum
\* of the free and the held balance of any account.
ReserveConservation ==
  /\ [](\A a \in Accounts : held[a] = ReservedOn(a))
  /\ [][\A a \in Accounts : free'[a] + held'[a] = free[a] + held[a]]_vars

\* C29 witness: the parent has just opened its bridge and has its deposit on
\* hold, out of its free balance, next to the bridge that the genesis build
\* seeded for the sibling without any deposit.
ReserveConservationWitness ==
  /\ last.op = "open_bridge"
  /\ last.res = "Ok"
  /\ Cardinality(DOMAIN Bridges) = 2
  /\ ReservedOn("ParentAccount") = BridgeDeposit
  /\ held["ParentAccount"] = BridgeDeposit
  /\ free["ParentAccount"] = BridgeDeposit + ExistentialDeposit
  /\ ReservedOn("SiblingAccount") = 0
  /\ held["SiblingAccount"] = 0

\* The storage s after messages more messages were sent over an outbound lane.
RECURSIVE Enqueued(_, _, _)
Enqueued(s, lane_id, messages) ==
  IF messages = 0 THEN s
  ELSE Enqueued([s EXCEPT !.OutboundLanes[lane_id] = send_message(@)], lane_id,
                messages - 1)

\* The storage left by open_bridge, then messages enqueues on the new lane,
\* then a close_bridge with budget first, then close_bridge calls with a
\* budget of at least one until the bridge is deleted.
RoundTrip(s, origin, destination, messages, first, budget) ==
  LET opened == open_bridge(s, origin, destination)
      lane_id == opened.event.lane_id
      sent == Enqueued(opened.st, lane_id, messages)
      closed == close_bridge(sent, origin, destination, first)
  IN
  IF closed.event.kind = "BridgePruned" THEN closed.st
  ELSE LET n == Max(1, CeilDiv(Queued(closed.st, lane_id), budget)) IN
    CloseCalls(closed.st, origin, destination, budget, n)[n].st

\* C30. Open/close round trip: from a reachable state without a bridge for a
\* pair, a successful open_bridge, any number of message enqueues on its
\* lane and close_bridge calls until the bridge is deleted leave Bridges,
\* LaneToBridge, the lanes of the lane store and every free and held balance
\* as they were in the starting state.
OpenCloseRoundTrip ==
  \A origin \in Origins, destination \in Destinations :
    open_bridge(Storage, origin, destination).res = "Ok" =>
      \A messages \in 0 .. MaxNonce, first \in Budgets, budget \in 1 .. MaxBudget :
        LET end == RoundTrip(Storage, origin, destination, messages, first, budget) IN
        /\ BridgeIdOfCall(origin, destination) \notin DOMAIN Bridges
        /\ end.Bridges = Bridges
        /\ end.LaneToBridge = LaneToBridge
        /\ DOMAIN end.InboundLanes = DOMAIN InboundLanes
        /\ DOMAIN end.OutboundLanes = DOMAIN OutboundLanes
        /\ end.InboundLanes = InboundLanes
        /\ end.OutboundLanes = OutboundLanes
        /\ end.free = free
        /\ end.held = held

\* C30 witness: on a chain without genesis bridges a bridge was opened with a
\* deposit, had messages enqueued and has just been deleted by close_bridge;
\* the maps and the lane store are empty again and every balance is what the
\* account was funded with.
OpenCloseRoundTripWitness ==
  /\ last.op = "close_bridge"
  /\ last.event.kind = "BridgePruned"
  /\ last.event.bridge_deposit = Ok(BridgeDeposit)
  /\ last.event.pruned_messages >= 1
  /\ Bridges = EmptyMap
  /\ LaneToBridge = EmptyMap
  /\ DOMAIN InboundLanes = {}
  /\ DOMAIN OutboundLanes = {}
  /\ free \in InitialBalances
  /\ \A a \in Accounts : held[a] = 0
  /\ RoundTrip(Storage, "parent_relay_chain_origin",
               into_versioned(bridged_asset_hub_universal_location), MaxNonce, 0, 1)
       = Storage

\* Snapshot t has everything of bridge other as snapshot s has it: its record,
\* its LaneToBridge entry and both its lanes with their states and queues.
BridgeUntouched(s, t, other) ==
  LET lane_id == s.Bridges[other].lane_id IN
  /\ other \in DOMAIN t.Bridges
  /\ t.Bridges[other] = s.Bridges[other]
  /\ (lane_id \in DOMAIN s.LaneToBridge) = (lane_id \in DOMAIN t.LaneToBridge)
  /\ lane_id \in DOMAIN s.LaneToBridge => t.LaneToBridge[lane_id] = s.LaneToBridge[lane_id]
  /\ (lane_id \in DOMAIN s.InboundLanes) = (lane_id \in DOMAIN t.InboundLanes)
  /\ lane_id \in DOMAIN s.InboundLanes => t.InboundLanes[lane_id] = s.InboundLanes[lane_id]
  /\ (lane_id \in DOMAIN s.OutboundLanes) = (lane_id \in DOMAIN t.OutboundLanes)
  /\ lane_id \in DOMAIN s.OutboundLanes =>
       /\ t.OutboundLanes[lane_id] = s.OutboundLanes[lane_id]
       /\ QueuedNonces(t, lane_id) = QueuedNonces(s, lane_id)

\* A call for bridge b has left, in snapshot t, every other bridge and every
\* account but the owner of b as they are in the storage.
LocalTo(t, b, owner) ==
  /\ \A other \in DOMAIN Bridges \ {b} : BridgeUntouched(Storage, t, other)
  /\ \A a \in Accounts \ {owner} : t.free[a] = free[a] /\ t.held[a] = held[a]

\* C31. Calls are local to one bridge: an open_bridge or close_bridge call for
\* bridge b, successful or not, leaves the record, the LaneToBridge entry, the
\* lane states and the queued messages of every other bridge unchanged, and
\* the free and held balance of every account but the owner of b; a call that
\* fails before it resolves to a bridge changes nothing at all.
CallsAreLocal ==
  \A origin \in Origins, destination \in Destinations :
    LET opened == open_bridge(Storage, origin, destination)
        resolved == bridge_locations_from_origin(origin, destination).ok
    IN
    /\ ~resolved => opened.st = Storage
    /\ (resolved /\ ~NoOriginAccount(origin)) =>
         LocalTo(opened.st, BridgeIdOfCall(origin, destination),
                 OwnerOfCall(origin, destination))
    /\ (resolved /\ NoOriginAccount(origin)) => opened.st = Storage
    /\ \A budget \in Budgets :
         LET closed == close_bridge(Storage, origin, destination, budget) IN
         /\ ~resolved => closed.st = Storage
         /\ (resolved /\ BridgeIdOfCall(origin, destination) \notin DOMAIN Bridges)
              => closed.st = Storage
         /\ (resolved /\ BridgeIdOfCall(origin, destination) \in DOMAIN Bridges) =>
              LocalTo(closed.st, BridgeIdOfCall(origin, destination),
                      Bridges[BridgeIdOfCall(origin, destination)].bridge_owner_account)

\* C31 witness: of two bridges the one of the parent has just been pruned and
\* its deposit released, while the bridge of the sibling is in place, Closed,
\* with its messages queued and its own deposit on hold.
CallsAreLocalWitness ==
  /\ last.op = "close_bridge"
  /\ last.event.kind = "BridgePruned"
  /\ last.event.bridge_id =
       BridgeIdOf("parent_relay_chain_origin",
                  into_versioned(bridged_asset_hub_universal_location))
  /\ \E other \in DOMAIN Bridges :
       /\ other # last.event.bridge_id
       /\ Bridges[other].state = "Closed"
       /\ Bridges[other].reserve = BridgeDeposit
       /\ held[Bridges[other].bridge_owner_account] = BridgeDeposit
       /\ Queued(Storage, Bridges[other].lane_id) > 0
       /\ LaneToBridge[Bridges[other].lane_id] = other

\* ------------------------------------------------------ no genesis bridges
\* A chain whose genesis configuration has an empty opened_bridges list.
SpecNoGenesisBridges == InitWith({<<>>}, {}, {}) /\ [][Next]_vars

EventKinds == {"BridgeOpened", "ClosingBridge", "BridgePruned"}

\* The step is a call that deposits an event of this kind carrying bridge b.
Emits(kind, b) ==
  /\ last'.op \in {"open_bridge", "close_bridge"}
  /\ last'.event.kind = kind
  /\ last'.event.bridge_id = b

\* C32. Event order per bridge: without genesis bridges, the events carrying
\* a bridge_id are a prefix of repetitions of BridgeOpened, ClosingBridge any
\* number of times, BridgePruned. The bridge is absent at the start and after
\* BridgePruned and present after BridgeOpened and ClosingBridge: BridgeOpened
\* is deposited only on an absent bridge, which it makes present, ClosingBridge
\* only on a present bridge, which it keeps, BridgePruned only on a present
\* bridge, which it deletes, and a step without an event for the bridge
\* leaves it present or absent as it was. A failing call deposits no event; a
\* successful open_bridge deposits BridgeOpened and a successful close_bridge
\* either ClosingBridge or BridgePruned, and nothing else.
EventOrder ==
  /\ [](last = GenesisCall => DOMAIN Bridges = {})
  /\ [][\A b \in BridgeIds :
          /\ Emits("BridgeOpened", b) =>
               b \notin DOMAIN Bridges /\ b \in DOMAIN Bridges'
          /\ Emits("ClosingBridge", b) =>
               b \in DOMAIN Bridges /\ b \in DOMAIN Bridges'
          /\ Emits("BridgePruned", b) =>
               b \in DOMAIN Bridges /\ b \notin DOMAIN Bridges'
          /\ ~(\E kind \in EventKinds : Emits(kind, b)) =>
               (b \in DOMAIN Bridges) = (b \in DOMAIN Bridges')]_vars
  /\ [][IF last'.op \in {"open_bridge", "close_bridge"}
        THEN IF last'.res # "Ok" THEN last'.event = NoEvent
             ELSE /\ last'.event.bridge_id \in BridgeIds
                  /\ last'.event.kind \in
                       (IF last'.op = "open_bridge" THEN {"BridgeOpened"}
                        ELSE {"ClosingBridge", "BridgePruned"})
        ELSE UNCHANGED Bridges]_vars

\* C32 witness: the sibling's bridge, opened by a call with a deposit, has
\* had messages pruned and BridgePruned deposited and is absent again, while
\* the parent's bridge is in the middle of its own sequence, Closed.
EventOrderWitness ==
  /\ last.op = "close_bridge"
  /\ last.res = "Ok"
  /\ last.event.kind = "BridgePruned"
  /\ last.event.bridge_deposit = Ok(BridgeDeposit)
  /\ last.event.pruned_messages >= 1
  /\ last.event.bridge_id =
       BridgeIdOf("sibling_parachain_origin",
                  into_versioned(bridged_asset_hub_universal_location))
  /\ last.event.bridge_id \notin DOMAIN Bridges
  /\ \E b \in DOMAIN Bridges : Bridges[b].state = "Closed"

\* -------------------------------------------------------------- zero budget
MaxZeroBudgetCalls == 3

\* C33. Zero budget makes no progress on a backlog: close_bridge with
\* may_prune_messages = 0 on a bridge whose outbound queue is not empty
\* returns Ok, removes no message, sets the bridge and both lanes to Closed
\* and deposits ClosingBridge with pruned_messages = 0; a second such call
\* leaves the storage of the first, and after any number of them the bridge,
\* its reverse-index entry, its queue and every free and held balance are
\* what they were before the first.
ZeroBudgetNoProgress ==
  \A origin \in Origins, destination \in Destinations :
    (/\ ResolvesToBridge(origin, destination)
     /\ Bridges[BridgeIdOf(origin, destination)].lane_id \in DOMAIN InboundLanes
     /\ QueuedNonces(Storage, Bridges[BridgeIdOf(origin, destination)].lane_id) # {}) =>
      LET b == BridgeIdOf(origin, destination)
          lane_id == Bridges[b].lane_id
          r == close_bridge(Storage, origin, destination, 0)
      IN
      /\ r.res = "Ok"
      /\ r.event = [ kind |-> "ClosingBridge", bridge_id |-> b, lane_id |-> lane_id,
                     pruned_messages |-> 0,
                     enqueued_messages |-> Queued(Storage, lane_id) ]
      /\ QueuedNonces(r.st, lane_id) = QueuedNonces(Storage, lane_id)
      /\ r.st.Bridges = [Bridges EXCEPT ![b].state = "Closed"]
      /\ r.st.InboundLanes = [InboundLanes EXCEPT ![lane_id].state = "Closed"]
      /\ r.st.OutboundLanes = [OutboundLanes EXCEPT ![lane_id].state = "Closed"]
      /\ r.st.LaneToBridge = LaneToBridge
      /\ r.st.free = free /\ r.st.held = held
      /\ close_bridge(r.st, origin, destination, 0) = r
      /\ \A calls \in 1 .. MaxZeroBudgetCalls :
           LET after == CloseCalls(Storage, origin, destination, 0, calls)[calls] IN
           /\ after.res = "Ok"
           /\ after.event.kind = "ClosingBridge"
           /\ b \in DOMAIN after.st.Bridges
           /\ after.st.Bridges[b].reserve = Bridges[b].reserve
           /\ after.st.held = held /\ after.st.free = free
           /\ QueuedNonces(after.st, lane_id) = QueuedNonces(Storage, lane_id)

\* C33 witness: close_bridge has been called with no budget on a bridge with
\* two queued messages: ClosingBridge reports none pruned and two enqueued,
\* the bridge is Closed and its two messages are still queued.
ZeroBudgetNoProgressWitness ==
  /\ last.op = "close_bridge"
  /\ last.res = "Ok"
  /\ last.event.kind = "ClosingBridge"
  /\ last.event.pruned_messages = 0
  /\ last.event.enqueued_messages = 2
  /\ last.event.bridge_id \in DOMAIN Bridges
  /\ Bridges[last.event.bridge_id].state = "Closed"
  /\ Queued(Storage, last.event.lane_id) = 2

\* -------------------------------------------------------- audit cardinality
InvalidLaneToBridge ==
  "Invalid LaneToBridge configuration, probably missing or not removed laneId!"

\* The lanes of LaneToBridge that no Bridge record has as its lane_id.
OrphanLanes(s) ==
  {l \in DOMAIN s.LaneToBridge : \A b \in DOMAIN s.Bridges : s.Bridges[b].lane_id # l}

\* C34. Audit cardinality check: when every Bridge record passes the checks
\* of do_try_state_for_bridge and LaneToBridge holds an entry more, for a lane
\* that no Bridge record owns, do_try_state fails with the Invalid
\* LaneToBridge configuration error; on a registry with no bridge and an
\* empty LaneToBridge it returns Ok.
AuditCardinality ==
  /\ ( /\ \A b \in DOMAIN Bridges : do_try_state_for_bridge(Storage, b, Bridges[b]).ok
       /\ OrphanLanes(Storage) # {} ) =>
       do_try_state(Storage) = Err(InvalidLaneToBridge)
  /\ (DOMAIN Bridges = {} /\ DOMAIN LaneToBridge = {}) =>
       do_try_state(Storage) = Ok("()")

\* C34 witness: the parent's bridge has been opened by a call, so that its
\* record passes the audit of one bridge, and LaneToBridge has been given an
\* entry for the sibling's lane, which no record owns.
AuditCardinalityWitness ==
  /\ Cardinality(DOMAIN Bridges) = 1
  /\ \A b \in DOMAIN Bridges : do_try_state_for_bridge(Storage, b, Bridges[b]).ok
  /\ Cardinality(OrphanLanes(Storage)) = 1
  /\ last.op = "insert_lane_to_bridge"

\* ------------------------------------------------------- lookup by lane id
\* C35. bridge_by_lane_id agrees with the two maps: for every lane L it
\* returns Some((b, Bridges[b])) exactly when LaneToBridge[L] = b and Bridges
\* contains b, and None otherwise; given the lane_id of an existing bridge it
\* returns that bridge's own id and record, and given the lane of the bridge
\* a close_bridge call has just deleted it returns None.
LookupByLane ==
  /\ \A lane_id \in OwnerLaneIds \cup DOMAIN LaneToBridge \cup {default_lane_id} :
       LET found == bridge_by_lane_id(Storage, lane_id) IN
       /\ \A b \in BridgeIds \cup DOMAIN Bridges :
            (found.ok /\ found.val[1] = b) <=>
              /\ lane_id \in DOMAIN LaneToBridge
              /\ LaneToBridge[lane_id] = b
              /\ b \in DOMAIN Bridges
       /\ found.ok => found = Ok(<<found.val[1], Bridges[found.val[1]]>>)
       /\ (found = Err("None")) <=>
            ~(lane_id \in DOMAIN LaneToBridge /\ LaneToBridge[lane_id] \in DOMAIN Bridges)
       /\ found.ok \/ found = Err("None")
  /\ \A b \in DOMAIN Bridges :
       bridge_by_lane_id(Storage, Bridges[b].lane_id) = Ok(<<b, Bridges[b]>>)
  /\ (last.op = "close_bridge" /\ last.event.kind = "BridgePruned") =>
       bridge_by_lane_id(Storage, last.event.lane_id) = Err("None")

\* C35 witness: the parent's bridge is there and is found by its lane, the
\* sibling's bridge has just been deleted, and LaneToBridge holds an entry
\* whose bridge_id has no record, for which the lookup gives None.
LookupByLaneWitness ==
  /\ last.op = "close_bridge"
  /\ last.event.kind = "BridgePruned"
  /\ last.event.bridge_id =
       BridgeIdOf("sibling_parachain_origin",
                  into_versioned(bridged_asset_hub_universal_location))
  /\ BridgeIdOf("parent_relay_chain_origin",
                into_versioned(bridged_asset_hub_universal_location)) \in DOMAIN Bridges
  /\ \E lane_id \in DOMAIN LaneToBridge : LaneToBridge[lane_id] \notin DOMAIN Bridges

\* ------------------------------------------------------- scheduling traits
\* The block number type: an unsigned integer of BlockNumberBits bits.
BlockNumberBits == 3
MaxBlockNumber == 2^BlockNumberBits - 1
BlockNumbers == 0 .. MaxBlockNumber

\* enum DispatchTime<BlockNumber>.
At(m) == [kind |-> "At", m |-> m]
After(m) == [kind |-> "After", m |-> m]
DispatchTimes == {At(m) : m \in BlockNumbers} \cup {After(m) : m \in BlockNumbers}

\* Saturating::saturating_add of an unsigned block number: the sum, or the
\* largest block number when the sum does not fit.
checked_add(a, b) == IF a + b <= MaxBlockNumber THEN Ok(a + b) ELSE Err("None")
saturating_add(a, b) ==
  LET sum == checked_add(a, b) IN IF sum.ok THEN sum.val ELSE MaxBlockNumber

\* evaluate with the addition of the machine: the sum modulo 2^BlockNumberBits.
evaluate_wrapping(when, since) ==
  CASE when.kind = "At" -> when.m
    [] when.kind = "After" -> (when.m + since) % (MaxBlockNumber + 1)

\* DispatchTime::evaluate.
evaluate(when, since) ==
  CASE when.kind = "At" -> when.m
    [] when.kind = "After" -> saturating_add(when.m, since)

\* enum MaybeHashed<T, Hash>, over two calls and two hashes.
Value(c) == [kind |-> "Value", c |-> c]
Hash(h) == [kind |-> "Hash", h |-> h]
ScheduledCalls == {"call_a", "call_b"}
Hashes == {"hash_1", "hash_2"}
MaybeHasheds == {Value(c) : c \in ScheduledCalls} \cup {Hash(h) : h \in Hashes}

\* T::encode and T::decode(&mut &data[..]): a call is encoded as one byte and
\* decoded from the first byte of the input, whatever follows it.
encode(c) == IF c = "call_a" THEN <<1>> ELSE <<2>>
decode(data) ==
  IF Len(data) = 0 THEN Err("Not enough data")
  ELSE IF data[1] = 1 THEN Ok("call_a")
  ELSE IF data[1] = 2 THEN Ok("call_b")
  ELSE Err("Invalid variant")

\* The preimage providers P: for each hash, no preimage or some bytes, which
\* may be the encoding of a call, that encoding with a byte more, or bytes
\* that decode to no call.
PreimageData == {encode(c) : c \in ScheduledCalls} \cup {<<1, 0>>, <<0>>, <<>>}
PreimageProviders == [Hashes -> {Err("None")} \cup {Ok(d) : d \in PreimageData}]
get_preimage(P, h) == P[h]

\* The result of resolved and the hashes it has asked the provider for.
Resolution(maybe_hashed, hash, lookups) ==
  [val |-> <<maybe_hashed, hash>>, lookups |-> lookups]

\* resolved naming the hash although the preimage could not be decoded.
resolved_naming_undecodable(self, P) ==
  CASE self.kind = "Value" -> Resolution(Value(self.c), Err("None"), <<>>)
    [] self.kind = "Hash" ->
         LET data == get_preimage(P, self.h) IN
         IF ~data.ok THEN Resolution(Hash(self.h), Err("None"), <<self.h>>)
         ELSE LET decoded == decode(data.val) IN
           IF decoded.ok THEN Resolution(Value(decoded.val), Ok(self.h), <<self.h>>)
           ELSE Resolution(Hash(self.h), Ok(self.h), <<self.h>>)

\* MaybeHashed::resolved::<P>.
resolved(self, P) ==
  CASE self.kind = "Value" -> Resolution(Value(self.c), Err("None"), <<>>)
    [] self.kind = "Hash" ->
         LET data == get_preimage(P, self.h) IN
         IF ~data.ok THEN Resolution(Hash(self.h), Err("None"), <<self.h>>)
         ELSE LET decoded == decode(data.val) IN
           IF decoded.ok THEN Resolution(Value(decoded.val), Ok(self.h), <<self.h>>)
           ELSE Resolution(Hash(self.h), Err("None"), <<self.h>>)

\* The inputs of the two functions; the pallet's storage plays no part and
\* stays that of a chain without bridges, and last holds the function
\* applied, its input and its result.
Pending(input) == [op |-> "pending", input |-> input]

InitSchedule ==
  /\ \E s \in {EmptyStorage([a \in Accounts |-> 0], {}, {})} :
       /\ Bridges = s.Bridges
       /\ LaneToBridge = s.LaneToBridge
       /\ InboundLanes = s.InboundLanes
       /\ OutboundLanes = s.OutboundLanes
       /\ free = s.free
       /\ held = s.held
       /\ release_fails = s.release_fails
  /\ \/ \E when \in DispatchTimes, since \in BlockNumbers :
          last = Pending([when |-> when, since |-> since])
     \/ \E self \in MaybeHasheds, P \in PreimageProviders :
          last = Pending([self |-> self, P |-> P])

Evaluate ==
  /\ last.op = "pending"
  /\ "when" \in DOMAIN last.input
  /\ last' = [op |-> "evaluate", input |-> last.input,
              res |-> evaluate(last.input.when, last.input.since)]
  /\ UNCHANGED storage_vars

Resolve ==
  /\ last.op = "pending"
  /\ "self" \in DOMAIN last.input
  /\ last' = [op |-> "resolved", input |-> last.input,
              res |-> resolved(last.input.self, last.input.P)]
  /\ UNCHANGED storage_vars

\* resolved applied to the MaybeHashed a call of resolved has returned.
ResolveAgain ==
  /\ last.op = "resolved"
  /\ last' = [op |-> "resolved_again",
              input |-> [self |-> last.res.val[1], P |-> last.input.P],
              first |-> last.res,
              res |-> resolved(last.res.val[1], last.input.P)]
  /\ UNCHANGED storage_vars

NextSchedule == Evaluate \/ Resolve \/ ResolveAgain

SpecSchedule == InitSchedule /\ [][NextSchedule]_vars

\* C36. DispatchTime::evaluate over an unsigned block number type of
\* BlockNumberBits bits: At(m).evaluate(since) is m for every since, and
\* After(m).evaluate(since) is the smaller of m + since and the largest block
\* number, so that it is a block number and at least since and at least m.
EvaluateSaturates ==
  last.op = "evaluate" =>
    LET when == last.input.when
        since == last.input.since
    IN
    /\ last.res \in BlockNumbers
    /\ when.kind = "At" => last.res = when.m
    /\ when.kind = "After" =>
         /\ last.res = Min(when.m + since, MaxBlockNumber)
         /\ last.res >= since
         /\ last.res >= when.m

\* C36 witness: After(m) has been evaluated since a block with which the sum
\* does not fit the block number type, and the result is the largest block
\* number.
EvaluateSaturatesWitness ==
  /\ last.op = "evaluate"
  /\ last.input.when.kind = "After"
  /\ last.input.when.m + last.input.since > MaxBlockNumber
  /\ last.input.when.m < MaxBlockNumber
  /\ last.input.since < MaxBlockNumber
  /\ last.res = MaxBlockNumber

\* C37. MaybeHashed::resolved: Value(c) resolves to (Value(c), None) and the
\* provider is not asked for any preimage; Hash(h) resolves to
\* (Value(c), Some(h)) exactly when the provider has a preimage for h that
\* decodes to c, and stays (Hash(h), None) when the preimage is missing or
\* cannot be decoded; resolving a result that is a Value again gives the
\* same Value with None.
ResolvedOnce ==
  /\ last.op = "resolved" =>
       LET self == last.input.self
           P == last.input.P
           result == last.res.val
       IN
       /\ self.kind = "Value" =>
            /\ result = <<Value(self.c), Err("None")>>
            /\ last.res.lookups = <<>>
       /\ self.kind = "Hash" =>
            /\ \A c \in ScheduledCalls :
                 (result = <<Value(c), Ok(self.h)>>) <=>
                   (P[self.h].ok /\ decode(P[self.h].val) = Ok(c))
            /\ (~P[self.h].ok \/ ~decode(P[self.h].val).ok) <=>
                 (result = <<Hash(self.h), Err("None")>>)
            /\ (\E c \in ScheduledCalls : result = <<Value(c), Ok(self.h)>>)
                 \/ result = <<Hash(self.h), Err("None")>>
  /\ (last.op = "resolved_again" /\ last.first.val[1].kind = "Value") =>
       /\ last.res.val = <<last.first.val[1], Err("None")>>
       /\ last.res.lookups = <<>>

\* C37 witness: a Hash whose preimage decoded to a call was resolved to that
\* Value with Some(h), and the Value has been resolved again, while the
\* provider holds, for the other hash, bytes that decode to no call.
ResolvedOnceWitness ==
  /\ last.op = "resolved_again"
  /\ last.first.val[1].kind = "Value"
  /\ last.first.val[2].ok
  /\ last.res.val[2] = Err("None")
  /\ \E h \in Hashes : last.input.P[h].ok /\ ~decode(last.input.P[h].val).ok

\* ------------------------------------- availability distribution test state
\* TestState::run_inner, the mock of everything around the subsystem under
\* test. The messages are those the subsystem may send, in any order.
RelayChainLength == 3

Candidates == {"candidate_a", "candidate_b", "candidate_c"}
ChunkKeys == {<<candidate_hash, 0>> : candidate_hash \in Candidates}

\* The messages run_inner answers without a change of its own state.
AnsweredMessages == {"SendRequests", "RuntimeApi", "Ancestors"}

\* The state of run_inner: the fields of TestState it uses, its local
\* remaining_stores, the number of ActiveLeaves updates the spawned task has
\* sent, how the run stands, the message handled last and, for the record,
\* the keys a StoreChunk has been answered Ok for.
TestState(valid_chunks, chunks, remaining_stores, updates_sent, status, message, stored) ==
  [ op |-> "run_inner",
    valid_chunks |-> valid_chunks,
    chunks |-> chunks,
    remaining_stores |-> remaining_stores,
    updates_sent |-> updates_sent,
    status |-> status,
    message |-> message,
    stored |-> stored ]

NoMessage == [kind |-> "None"]

\* run_inner up to its loop: remaining_stores = valid_chunks.len(). Every
\* key has one chunk to serve; valid_chunks is any set of the keys.
InitTestState ==
  /\ \E s \in {EmptyStorage([a \in Accounts |-> 0], {}, {})} :
       /\ Bridges = s.Bridges
       /\ LaneToBridge = s.LaneToBridge
       /\ InboundLanes = s.InboundLanes
       /\ OutboundLanes = s.OutboundLanes
       /\ free = s.free
       /\ held = s.held
       /\ release_fails = s.release_fails
  /\ \E valid_chunks \in SUBSET ChunkKeys :
       last = TestState(valid_chunks, [k \in ChunkKeys |-> 1],
                        Cardinality(valid_chunks), 0, "running", NoMessage, {})

InLoop == last.status = "running" /\ last.remaining_stores > 0

\* The spawned task: one ActiveLeaves update per relay chain block but the
\* first.
SendActiveLeavesUpdate ==
  /\ last.status # "panicked"
  /\ last.updates_sent < RelayChainLength - 1
  /\ last' = [last EXCEPT !.updates_sent = @ + 1]
  /\ UNCHANGED storage_vars

\* The arms forwarding chunk requests and answering runtime and chain
\* queries.
AnswerMessage(kind) ==
  /\ InLoop
  /\ last' = [last EXCEPT !.message = [kind |-> kind]]
  /\ UNCHANGED storage_vars

\* The QueryChunk arm: the chunk popped from chunks[key], if any, is sent.
QueryChunk(key) ==
  /\ InLoop
  /\ last' = [last EXCEPT !.message = [kind |-> "QueryChunk", key |-> key],
                          !.chunks[key] = IF @ > 0 THEN @ - 1 ELSE 0]
  /\ UNCHANGED storage_vars

\* The StoreChunk arm: both assertions, then Ok and one store less to wait
\* for.
StoreChunk(key, our_index) ==
  /\ InLoop
  /\ LET message == [kind |-> "StoreChunk", key |-> key, our_index |-> our_index] IN
     IF key \notin last.valid_chunks \/ ~our_index
     THEN last' = [last EXCEPT !.message = message, !.status = "panicked"]
     ELSE last' = [last EXCEPT !.message = message,
                               !.remaining_stores = @ - 1,
                               !.stored = @ \cup {key}]
  /\ UNCHANGED storage_vars

\* Any other message, and any runtime request without an arm.
UnexpectedMessage ==
  /\ InLoop
  /\ last' = [last EXCEPT !.message = [kind |-> "Unexpected"], !.status = "panicked"]
  /\ UNCHANGED storage_vars

\* After the loop: overseer_signal(tx, OverseerSignal::Conclude).
Conclude ==
  /\ last.status = "running"
  /\ last.remaining_stores = 0
  /\ last' = [last EXCEPT !.status = "concluded"]
  /\ UNCHANGED storage_vars

\* TestState::run: the timeout elapses before run_inner returns.
Timeout ==
  /\ InLoop
  /\ last' = [last EXCEPT !.status = "timed out"]
  /\ UNCHANGED storage_vars

NextTestState ==
  \/ SendActiveLeavesUpdate
  \/ \E kind \in AnsweredMessages : AnswerMessage(kind)
  \/ \E key \in ChunkKeys : QueryChunk(key)
  \/ \E key \in ChunkKeys, our_index \in BOOLEAN : StoreChunk(key, our_index)
  \/ UnexpectedMessage
  \/ Conclude
  \/ Timeout

SpecTestState == InitTestState /\ [][NextTestState]_vars

\* C38 as stated. Goal of the test harness: Conclude is sent only after every
\* key of valid_chunks has been stored by the subsystem, whatever messages the
\* subsystem sends, the same valid key stored more than once included; and a
\* StoreChunk for a key outside valid_chunks fails the run.
ConcludeAfterAllStored ==
  last.op = "run_inner" =>
    /\ last.status = "concluded" => last.valid_chunks \subseteq last.stored
    /\ (last.message.kind = "StoreChunk" /\ last.message.key \notin last.valid_chunks) =>
         last.status = "panicked"

\* ------------------------------------------------------- corrupted registry
\* Bridges and LaneToBridge written directly, as do_try_state_works writes
\* them, with any content: records of the two owners under any of three
\* keys, on either of two lanes, and either lane mapped to any key.
CorruptedLanes ==
  { default_lane_id,
    LaneIdOfCall("sibling_parachain_origin",
                 into_versioned(bridged_asset_hub_universal_location)) }
CorruptedKeys == BridgeIds \cup {bridge_id_mismatch}
CorruptedBridges ==
  { NewBridge(bridge_locations_from_origin(
                origin, into_versioned(bridged_asset_hub_universal_location)).val,
              OwnerOfCall(origin, into_versioned(bridged_asset_hub_universal_location)),
              0, lane_id) :
      origin \in BridgeOwnerOrigins, lane_id \in CorruptedLanes }

\* The audit run on the maps as they are after a direct write.
Audited(bridges, lane_to_bridge) ==
  LET audit == do_try_state([Storage EXCEPT !.Bridges = bridges,
                                            !.LaneToBridge = lane_to_bridge])
  IN Call("do_try_state", IF audit.ok THEN "Ok" ELSE audit.err, NoEvent)

WriteBridge(id, bridge) ==
  /\ Bridges' = Put(Bridges, id, bridge)
  /\ last' = Audited(Bridges', LaneToBridge)
  /\ UNCHANGED <<LaneToBridge, InboundLanes, OutboundLanes, free, held, release_fails>>

DeleteBridge(id) ==
  /\ id \in DOMAIN Bridges
  /\ Bridges' = Remove(Bridges, id)
  /\ last' = Audited(Bridges', LaneToBridge)
  /\ UNCHANGED <<LaneToBridge, InboundLanes, OutboundLanes, free, held, release_fails>>

WriteLaneToBridge(lane_id, bridge_id) ==
  /\ LaneToBridge' = Put(LaneToBridge, lane_id, bridge_id)
  /\ last' = Audited(Bridges, LaneToBridge')
  /\ UNCHANGED <<Bridges, InboundLanes, OutboundLanes, free, held, release_fails>>

DeleteLaneToBridge(lane_id) ==
  /\ lane_id \in DOMAIN LaneToBridge
  /\ LaneToBridge' = Remove(LaneToBridge, lane_id)
  /\ last' = Audited(Bridges, LaneToBridge')
  /\ UNCHANGED <<Bridges, InboundLanes, OutboundLanes, free, held, release_fails>>

NextCorruptedRegistry ==
  \/ \E id \in CorruptedKeys, bridge \in CorruptedBridges : WriteBridge(id, bridge)
  \/ \E id \in CorruptedKeys : DeleteBridge(id)
  \/ \E lane_id \in CorruptedLanes, bridge_id \in CorruptedKeys :
       WriteLaneToBridge(lane_id, bridge_id)
  \/ \E lane_id \in CorruptedLanes : DeleteLaneToBridge(lane_id)

SpecCorruptedRegistry == InitWith({<<>>}, {}, {}) /\ [][NextCorruptedRegistry]_vars

InvalidBridges ==
  "Invalid Bridges configuration, probably two bridges handle the same laneId!"

BridgeDiagnostics ==
  { LaneToBridgeInconsistency, RelativeLocationNotLatest, OriginLocationNotLatest,
    DestinationLocationNotLatest, BridgeIdMismatch, OwnerAccountMismatch }

\* C39. Unreachable audit diagnostic: whatever Bridges and LaneToBridge
\* hold, do_try_state does not return the error about two bridges handling
\* the same laneId: of two Bridge records with one lane_id at least one
\* fails the reverse-index check of do_try_state_for_bridge, and the audit
\* then returns an error of do_try_state_for_bridge.
SharedLaneDiagnosticUnreachable ==
  /\ do_try_state(Storage) # Err(InvalidBridges)
  /\ last.op = "do_try_state" => last.res # InvalidBridges
  /\ \A b1 \in DOMAIN Bridges, b2 \in DOMAIN Bridges :
       (b1 # b2 /\ Bridges[b1].lane_id = Bridges[b2].lane_id) =>
         /\ \E b \in {b1, b2} :
              do_try_state_for_bridge(Storage, b, Bridges[b]) = Err(LaneToBridgeInconsistency)
         /\ ~do_try_state(Storage).ok
         /\ do_try_state(Storage).err \in BridgeDiagnostics

\* C39 witness: the records of the parent's and of the sibling's bridge, each
\* under its own key, have the same lane_id, which LaneToBridge maps to one
\* of them; that one passes the audit of one bridge, the other fails its
\* reverse-index check, and the audit has just reported it.
SharedLaneDiagnosticUnreachableWitness ==
  /\ last.op = "do_try_state"
  /\ last.res = LaneToBridgeInconsistency
  /\ Cardinality(DOMAIN Bridges) = 2
  /\ Cardinality(DOMAIN LaneToBridge) = 1
  /\ \E b1 \in DOMAIN Bridges, b2 \in DOMAIN Bridges :
       /\ b1 # b2
       /\ Bridges[b1].lane_id = Bridges[b2].lane_id
       /\ do_try_state_for_bridge(Storage, b1, Bridges[b1]).ok
       /\ do_try_state_for_bridge_ignoring_reverse_index(Storage, b2, Bridges[b2]).ok

====
